---- MODULE Spec2Model ----
(***************************************************************************)
(* CSV-backed persistence layer of the GitHub repository analysis tool     *)
(* (part4/4_mastery): models.py (record codec) and data_manager.py (table  *)
(* store, per-repository tables, summary).                                 *)
(*                                                                         *)
(* Text is a sequence of symbols.  A symbol is one character ("a", ",",    *)
(* "\"", "\n", "\r", " ", a digit) or a run of ordinary characters that    *)
(* the program never splits (a column name such as "num_repos", a path     *)
(* component such as "projects").  Python's None is the value None below,  *)
(* an exception is a non-empty string in the field exc of a result.        *)
(***************************************************************************)
EXTENDS Integers, Sequences, FiniteSets, TLC

\* ------------------------------------------------------------------------
\* Bounds of the model

\* largest num_pull_requests the users table is allowed to reach
MaxStoredPRs == 5
\* longest free text explored by the codec specification
MaxTextLen == 2

\* ------------------------------------------------------------------------
\* Python values

None == <<"<None>">>

QUOTE == "\""
COMMA == ","
LF == "\n"
CR == "\r"
SPACE == " "

Digits == <<"0", "1", "2", "3", "4", "5", "6", "7", "8", "9">>

DigitSet == {Digits[i] : i \in 1..10}

DigitValue(c) == (CHOOSE i \in 1..10 : Digits[i] = c) - 1

\* str(n) / f"{n}" for a non-negative int
RECURSIVE str(_)
str(n) == IF n < 10 THEN <<Digits[n + 1]>> ELSE str(n \div 10) \o <<Digits[(n % 10) + 1]>>

Whitespace == {SPACE, LF, CR}

RECURSIVE lstrip(_)
lstrip(s) == IF s # <<>> /\ Head(s) \in Whitespace THEN lstrip(Tail(s)) ELSE s

RECURSIVE rstrip(_)
rstrip(s) ==
    IF s # <<>> /\ s[Len(s)] \in Whitespace THEN rstrip(SubSeq(s, 1, Len(s) - 1)) ELSE s

RECURSIVE DecimalValue(_)
DecimalValue(s) ==
    IF s = <<>> THEN 0 ELSE 10 * DecimalValue(SubSeq(s, 1, Len(s) - 1)) + DigitValue(s[Len(s)])

\* how an evaluation ends: the exception raised ("" when none) and the value
Ok(v) == [exc |-> "", val |-> v]

Raise(e) == [exc |-> e, val |-> <<>>]

\* int() of a text already stripped of its surrounding whitespace
int_literal(t) ==
    IF t # <<>> /\ \A i \in 1..Len(t) : t[i] \in DigitSet
    THEN Ok(DecimalValue(t))
    ELSE Raise("ValueError")

\* int(x) of a str-or-None value: a str is stripped and read as decimal digits,
\* None raises TypeError, any other text raises ValueError
int(x) == IF x = None THEN Raise("TypeError") ELSE int_literal(rstrip(lstrip(x)))

\* s.replace(old, new) for a one-character old
RECURSIVE replace(_, _, _)
replace(s, old, new) ==
    IF s = <<>> THEN <<>>
    ELSE (IF Head(s) = old THEN new ELSE <<Head(s)>>) \o replace(Tail(s), old, new)

\* Python truthiness of a str-or-None value
Truthy(x) == x # None /\ x # <<>>

\* a variant of the escaping that doubles the quotes and keeps the line breaks
safe_text_keeping_line_breaks(s) ==
    IF Truthy(s) THEN replace(s, QUOTE, <<QUOTE, QUOTE>>) ELSE <<>>

\* the escaping expression shared by the three free-text fields
safe_text(s) ==
    IF Truthy(s)
    THEN replace(replace(replace(s, QUOTE, <<QUOTE, QUOTE>>), LF, <<SPACE>>), CR, <<>>)
    ELSE <<>>

\* f"{x}" of a str-or-None value
fmt(x) == IF x = None THEN <<"None">> ELSE x

RECURSIVE join(_, _)
join(fields, sep) ==
    IF fields = <<>> THEN <<>>
    ELSE IF Len(fields) = 1 THEN fields[1]
    ELSE fields[1] \o <<sep>> \o join(Tail(fields), sep)

quoted(s) == <<QUOTE>> \o s \o <<QUOTE>>

\* ------------------------------------------------------------------------
\* models.py: the record codec

UserColumns ==
    <<"login", "num_pull_requests", "num_repos", "num_followers", "num_following",
      "num_contributions">>

PullRequestColumns ==
    <<"number", "title", "body", "state", "created_at", "closed_at", "user", "commits",
      "additions", "deletions", "changed_files", "author_association">>

RepositoryColumns ==
    <<"name", "owner", "description", "homepage", "license_key", "license_name", "forks",
      "watchers", "stars", "date_of_collection">>

HeaderOf(columns) == join([i \in 1..Len(columns) |-> <<columns[i]>>], COMMA)

User_get_csv_header == HeaderOf(UserColumns)

PullRequest_get_csv_header == HeaderOf(PullRequestColumns)

Repository_get_csv_header == HeaderOf(RepositoryColumns)

User_to_csv_string(u) ==
    join(<<fmt(u.login), str(u.num_pull_requests), str(u.num_repos), str(u.num_followers),
           str(u.num_following), str(u.num_contributions)>>, COMMA)

PullRequest_to_csv_string(pr) ==
    LET safe_body == safe_text(pr.body)
        safe_title == safe_text(pr.title)
        closed_at == IF Truthy(pr.closed_at) THEN pr.closed_at ELSE <<>>
    IN  join(<<str(pr.number), quoted(safe_title), quoted(safe_body), fmt(pr.state),
               fmt(pr.created_at), closed_at, fmt(pr.user), str(pr.commits),
               str(pr.additions), str(pr.deletions), str(pr.changed_files),
               fmt(pr.author_association)>>, COMMA)

Repository_to_csv_string(r) ==
    LET safe_desc == safe_text(r.description)
        homepage == IF Truthy(r.homepage) THEN r.homepage ELSE <<>>
    IN  join(<<fmt(r.name), fmt(r.owner), quoted(safe_desc), homepage, fmt(r.license.key),
               fmt(r.license.name), str(r.forks), str(r.watchers), str(r.stars),
               fmt(r.date_of_collection)>>, COMMA)

\* A DictReader row is dict(zip(fieldnames, values)), kept as the two lists.
\* The columns holding key; a name that occurs twice keeps its last value.
columns_of(row, key) == {i \in 1..Len(row.fieldnames) : row.fieldnames[i] = <<key>>}

\* row[key] for a key of the row: a field missing from a short row is None
\* (restval)
item(row, key) ==
    LET S == columns_of(row, key)
        last == CHOOSE i \in S : \A j \in S : j <= i
    IN  IF last <= Len(row.values) THEN row.values[last] ELSE None

\* row.get(key, default)
get(row, key, default) == IF columns_of(row, key) = {} THEN default ELSE item(row, key)

\* int(row.get(key, 0)): the int default 0 passes through int() unchanged
int_get(row, key) == IF columns_of(row, key) = {} THEN Ok(0) ELSE int(item(row, key))

\* the first exception among the int() conversions of a constructor call, in
\* argument order
FirstExc(results) ==
    IF \E i \in 1..Len(results) : results[i].exc # ""
    THEN results[CHOOSE i \in 1..Len(results) :
                    /\ results[i].exc # ""
                    /\ \A j \in 1..(i - 1) : results[j].exc = ""].exc
    ELSE ""

User_from_csv_row(row) ==
    LET npr == int_get(row, "num_pull_requests")
        nre == int_get(row, "num_repos")
        nfs == int_get(row, "num_followers")
        nfg == int_get(row, "num_following")
        nco == int_get(row, "num_contributions")
        exc == FirstExc(<<npr, nre, nfs, nfg, nco>>)
    IN  IF exc # "" THEN Raise(exc)
        ELSE Ok([kind |-> "User",
                 login |-> get(row, "login", <<>>),
                 num_pull_requests |-> npr.val,
                 num_repos |-> nre.val,
                 num_followers |-> nfs.val,
                 num_following |-> nfg.val,
                 num_contributions |-> nco.val])

PullRequest_from_csv_row(row) ==
    LET num == int_get(row, "number")
        com == int_get(row, "commits")
        add == int_get(row, "additions")
        del == int_get(row, "deletions")
        chf == int_get(row, "changed_files")
        exc == FirstExc(<<num, com, add, del, chf>>)
    IN  IF exc # "" THEN Raise(exc)
        ELSE Ok([kind |-> "PullRequest",
                 title |-> get(row, "title", <<>>),
                 number |-> num.val,
                 body |-> get(row, "body", <<>>),
                 state |-> get(row, "state", <<>>),
                 created_at |-> get(row, "created_at", <<>>),
                 closed_at |-> IF Truthy(get(row, "closed_at", None))
                               THEN get(row, "closed_at", None) ELSE None,
                 user |-> get(row, "user", <<>>),
                 commits |-> com.val,
                 additions |-> add.val,
                 deletions |-> del.val,
                 changed_files |-> chf.val,
                 author_association |-> get(row, "author_association", <<>>)])

Repository_from_csv_row(row) ==
    LET license_obj == [key |-> get(row, "license_key", <<>>),
                        name |-> get(row, "license_name", <<>>),
                        url |-> <<>>]
        frk == int_get(row, "forks")
        wat == int_get(row, "watchers")
        sta == int_get(row, "stars")
        exc == FirstExc(<<frk, wat, sta>>)
    IN  IF exc # "" THEN Raise(exc)
        ELSE Ok([kind |-> "Repository",
                 name |-> get(row, "name", <<>>),
                 owner |-> get(row, "owner", <<>>),
                 description |-> get(row, "description", <<>>),
                 homepage |-> get(row, "homepage", <<>>),
                 license |-> license_obj,
                 forks |-> frk.val,
                 watchers |-> wat.val,
                 stars |-> sta.val,
                 date_of_collection |-> get(row, "date_of_collection", <<>>)])

get_csv_header(obj) ==
    CASE obj.kind = "User" -> User_get_csv_header
      [] obj.kind = "PullRequest" -> PullRequest_get_csv_header
      [] obj.kind = "Repository" -> Repository_get_csv_header

to_csv_string(obj) ==
    CASE obj.kind = "User" -> User_to_csv_string(obj)
      [] obj.kind = "PullRequest" -> PullRequest_to_csv_string(obj)
      [] obj.kind = "Repository" -> Repository_to_csv_string(obj)

from_csv_row(kind, row) ==
    CASE kind = "User" -> User_from_csv_row(row)
      [] kind = "PullRequest" -> PullRequest_from_csv_row(row)
      [] kind = "Repository" -> Repository_from_csv_row(row)

\* ------------------------------------------------------------------------
\* csv.reader / csv.DictReader (default "excel" dialect, not strict) over a
\* file opened with newline='': the file's lines end at "\n", "\r" or "\r\n"

\* The reader's parser is a state machine stepped once per character.  st is
\* <<state, field, row, rows>>: the parser state, the field and the row being
\* built, and the rows finished.  AFTER_CR is START_RECORD right after a "\r"
\* that ended a line, where a following "\n" belongs to the same line ending.
csv_step(st, c) ==
    LET state == st[1]
        field == st[2]
        row == st[3]
        rows == st[4]
    IN  IF state = "IN_QUOTED_FIELD"
        THEN IF c = QUOTE THEN <<"QUOTE_IN_QUOTED_FIELD", field, row, rows>>
             ELSE <<"IN_QUOTED_FIELD", Append(field, c), row, rows>>
        ELSE IF c = LF \/ c = CR
        THEN IF state = "AFTER_CR" /\ c = LF THEN <<"START_RECORD", <<>>, <<>>, rows>>
             ELSE LET after == IF c = CR THEN "AFTER_CR" ELSE "START_RECORD"
                  IN  IF state = "START_RECORD" \/ state = "AFTER_CR"
                      THEN <<after, <<>>, <<>>, Append(rows, <<>>)>>
                      ELSE <<after, <<>>, <<>>, Append(rows, Append(row, field))>>
        ELSE IF c = COMMA
        THEN <<"START_FIELD", <<>>, Append(row, field), rows>>
        ELSE IF c = QUOTE
        THEN IF state = "IN_FIELD" THEN <<"IN_FIELD", Append(field, c), row, rows>>
             ELSE IF state = "QUOTE_IN_QUOTED_FIELD"
             THEN <<"IN_QUOTED_FIELD", Append(field, c), row, rows>>
             ELSE <<"IN_QUOTED_FIELD", <<>>, row, rows>>
        ELSE <<"IN_FIELD", Append(field, c), row, rows>>

\* the parser stepped over text[lo..hi], left half first
RECURSIVE csv_run(_, _, _, _)
csv_run(text, lo, hi, st) ==
    IF lo > hi THEN st
    ELSE IF lo = hi THEN csv_step(st, text[lo])
    ELSE LET mid == (lo + hi) \div 2
             left == csv_run(text, lo, mid, st)
         IN  IF left[1] = "" THEN left ELSE csv_run(text, mid + 1, hi, left)

\* the rows delivered when the file ends in parser state st: an unfinished
\* row is delivered too
csv_end(st) ==
    IF st[1] = "START_RECORD" \/ st[1] = "AFTER_CR" THEN st[4]
    ELSE Append(st[4], Append(st[3], st[2]))

\* list(csv.reader(f)): every row of the file, each a list of fields
csv_reader(text) ==
    csv_end(csv_run(text, 1, Len(text), <<"START_RECORD", <<>>, <<>>, <<>>>>))

\* dict(zip(fieldnames, row)), read through get above.  The surplus fields of
\* a long row go under the key None, which no caller reads.
DictRow(fieldnames, row) == [fieldnames |-> fieldnames, values |-> row]

RECURSIVE NonEmptyRows(_)
NonEmptyRows(rows) ==
    IF rows = <<>> THEN <<>>
    ELSE (IF Head(rows) = <<>> THEN <<>> ELSE <<Head(rows)>>) \o NonEmptyRows(Tail(rows))

DictRows(fieldnames, data) == [i \in 1..Len(data) |-> DictRow(fieldnames, data[i])]

\* the dicts made of the rows of a file: the first row gives the field names,
\* every later non-empty row a dict
dicts_of(all) == IF all = <<>> THEN <<>> ELSE DictRows(all[1], NonEmptyRows(Tail(all)))

\* list(csv.DictReader(f))
DictReader(text) == dicts_of(csv_reader(text))

\* ------------------------------------------------------------------------
\* The working directory: files maps the path of every existing file to its
\* text, dirs is the set of existing sub-directories.
\*
\* A fault is what the environment does to one call: read = k >= 0 makes the
\* read of the existing file raise IOError (or csv.Error) after k rows have been
\* delivered, read = -1 lets it succeed; write makes the open() for writing
\* raise IOError.

NoFault == [read |-> -1, write |-> FALSE]

Min(a, b) == IF a < b THEN a ELSE b

\* the rows a reader delivers before the fault strikes
Delivered(rows, fault) ==
    IF fault.read < 0 THEN rows ELSE SubSeq(rows, 1, Min(fault.read, Len(rows)))

ReadFails(fault) == fault.read >= 0

LastIndexOf(s, c) ==
    IF \E i \in 1..Len(s) : s[i] = c
    THEN CHOOSE i \in 1..Len(s) : s[i] = c /\ \A j \in (i + 1)..Len(s) : s[j] # c
    ELSE 0

\* os.path.dirname(filename)
dirname(filename) ==
    LET i == LastIndexOf(filename, "/")
    IN  IF i = 0 THEN <<>> ELSE SubSeq(filename, 1, i - 1)

\* a variant of the directory part that creates nothing
no_directory(dirs, filename) == dirs

\* the directory part of to_CSV / update_user_csv: os.makedirs when missing
ensure_directory(dirs, filename) ==
    LET directory == dirname(filename)
    IN  IF directory # <<>> /\ directory \notin dirs THEN dirs \cup {directory} ELSE dirs

\* the answer of _get_unique_id for an object of no known kind
no_unique_id(obj) == <<>>

get_unique_id(obj) ==
    CASE obj.kind = "Repository" -> fmt(obj.owner) \o <<"/">> \o fmt(obj.name)
      [] obj.kind = "PullRequest" -> str(obj.number)
      [] obj.kind = "User" -> obj.login

\* a variant of the comparison that takes a row for a duplicate only when all
\* of its fields are those of obj
same_row(row, obj, unique_id) == <<row.values>> = csv_reader(to_csv_string(obj))

\* the comparison _entry_exists makes for one row
row_matches(row, obj, unique_id) ==
    CASE obj.kind = "Repository" ->
            fmt(get(row, "owner", <<>>)) \o <<"/">> \o fmt(get(row, "name", <<>>)) = unique_id
      [] obj.kind = "PullRequest" -> get(row, "number", <<>>) = unique_id
      [] obj.kind = "User" -> get(row, "login", <<>>) = unique_id

\* the loop of _entry_exists over the rows it is given
any_row_matches(rows, obj, unique_id) ==
    \E i \in 1..Len(rows) : row_matches(rows[i], obj, unique_id)

\* a variant of the scan that finds no entry
never_exists(text, obj, unique_id, fault) == FALSE

\* a fault during the scan is caught and answered False unless a matching row
\* was met before it
entry_exists(text, obj, unique_id, fault) ==
    any_row_matches(Delivered(DictReader(text), fault), obj, unique_id)

line(s) == s \o <<LF>>

\* how a writing call ends: the working directory it leaves, the exception it
\* raised ("" when it returned) and, for update_user_csv, the users it wrote
Outcome(files, dirs, exc, users) ==
    [files |-> files, dirs |-> dirs, exc |-> exc, users |-> users]

\* files with the text of filename replaced
put(files, filename, text) ==
    [f \in DOMAIN files \cup {filename} |-> IF f = filename THEN text ELSE files[f]]

\* a variant of the append that writes no header
appended_without_header(files, filename, obj) ==
    put(files, filename,
        (IF filename \in DOMAIN files THEN files[filename] ELSE <<>>)
            \o line(to_csv_string(obj)))

\* a variant of the append that opens the file with mode 'w': the stored rows
\* are lost
appended_truncating(files, filename, obj) ==
    put(files, filename, line(get_csv_header(obj)) \o line(to_csv_string(obj)))

\* a variant of the append that writes the header before every row
appended_with_header(files, filename, obj) ==
    put(files, filename,
        (IF filename \in DOMAIN files THEN files[filename] ELSE <<>>)
            \o line(get_csv_header(obj)) \o line(to_csv_string(obj)))

\* the append of to_CSV: the header first when the file is new
appended(files, filename, obj) ==
    put(files, filename,
        (IF filename \in DOMAIN files THEN files[filename] ELSE line(get_csv_header(obj)))
            \o line(to_csv_string(obj)))

\* a variant of the duplicate check that finds nothing
not_duplicate(files, filename, obj, file_exists) == FALSE

\* "if file_exists: ... if _entry_exists(filename, obj, unique_id): return",
\* file_exists being what os.path.isfile answered before
is_duplicate(files, filename, obj, file_exists) ==
    /\ file_exists
    /\ filename \in DOMAIN files
    /\ entry_exists(files[filename], obj, get_unique_id(obj), NoFault)

\* the append at the end of to_CSV: open(filename, 'a') and the writes, the
\* header among them when os.path.isfile had answered False
written_by(files, filename, obj, file_exists) ==
    put(files, filename,
        (IF filename \in DOMAIN files THEN files[filename] ELSE <<>>)
            \o (IF file_exists THEN <<>> ELSE line(get_csv_header(obj)))
            \o line(to_csv_string(obj)))

\* to_CSV on a directory state where the directory part is done
to_CSV_file(files, dirs, filename, obj, fault) ==
    IF filename \in DOMAIN files
           /\ entry_exists(files[filename], obj, get_unique_id(obj), fault)
    THEN Outcome(files, dirs, "", <<>>)
    ELSE IF fault.write
    THEN Outcome(files, dirs, "IOError", <<>>)
    ELSE Outcome(appended(files, filename, obj), dirs, "", <<>>)

\* to_CSV(filename, obj): the working directory after the call, and the
\* exception it raised ("" when it returned)
to_CSV(files, dirs, filename, obj, fault) ==
    to_CSV_file(files, ensure_directory(dirs, filename), filename, obj, fault)

\* The scan shared by load_repositories, load_pull_requests and load_users:
\* rows are decoded in order; a decoding exception is not among the caught
\* ones and leaves the function; a read fault is caught and the entities
\* decoded so far are returned.
RECURSIVE decode_rows(_, _, _)
decode_rows(kind, rows, acc) ==
    IF rows = <<>> THEN Ok(acc)
    ELSE LET e == from_csv_row(kind, Head(rows))
         IN  IF e.exc # "" THEN Raise(e.exc)
             ELSE decode_rows(kind, Tail(rows), Append(acc, e.val))

\* how a scan that decoded r ends: a read fault met after the rows were decoded
\* is caught, and logged tells that the except clause printed its "Error
\* loading ..." diagnostic
scanned(r, fault) ==
    [exc |-> r.exc, val |-> r.val, logged |-> r.exc = "" /\ ReadFails(fault)]

\* a variant of the scan that opens the file without asking whether it exists
\* and lets the error of open() out
load_unchecked(files, filename, kind, fault) ==
    IF filename \notin DOMAIN files
    THEN [exc |-> "FileNotFoundError", val |-> <<>>, logged |-> FALSE]
    ELSE scanned(decode_rows(kind, Delivered(DictReader(files[filename]), fault), <<>>),
                 fault)

load(files, filename, kind, fault) ==
    IF filename \notin DOMAIN files THEN [exc |-> "", val |-> <<>>, logged |-> FALSE]
    ELSE scanned(decode_rows(kind, Delivered(DictReader(files[filename]), fault), <<>>),
                 fault)

load_users(files, filename, fault) == load(files, filename, "User", fault)

load_repositories(files, filename, fault) == load(files, filename, "Repository", fault)

Max(a, b) == IF a > b THEN a ELSE b

\* a variant of the update that overwrites the stored row
overwrite_user(existing, user) == user

\* a variant of the update that adds the pull requests and takes the other
\* counters as they come
latest_counters(existing, user) ==
    [user EXCEPT !.num_pull_requests = existing.num_pull_requests + user.num_pull_requests]

\* the update of the matching row in update_user_csv
merge_user(existing, user) ==
    [existing EXCEPT !.num_pull_requests = existing.num_pull_requests + user.num_pull_requests,
                     !.num_repos = Max(existing.num_repos, user.num_repos),
                     !.num_followers = Max(existing.num_followers, user.num_followers),
                     !.num_following = Max(existing.num_following, user.num_following),
                     !.num_contributions = Max(existing.num_contributions,
                                               user.num_contributions)]

\* the text written by the rewrite loop
RECURSIVE user_lines(_)
user_lines(users) ==
    IF users = <<>> THEN <<>> ELSE line(User_to_csv_string(Head(users))) \o user_lines(Tail(users))

\* a variant of the search that stops at the last row holding login
last_index_of(existing_users, login) ==
    IF \E i \in 1..Len(existing_users) : existing_users[i].login = login
    THEN CHOOSE i \in 1..Len(existing_users) :
            /\ existing_users[i].login = login
            /\ \A j \in (i + 1)..Len(existing_users) : existing_users[j].login # login
    ELSE 0

\* the first index of existing_users holding login, 0 when there is none
index_of(existing_users, login) ==
    IF \E i \in 1..Len(existing_users) : existing_users[i].login = login
    THEN CHOOSE i \in 1..Len(existing_users) :
            /\ existing_users[i].login = login
            /\ \A j \in 1..(i - 1) : existing_users[j].login # login
    ELSE 0

\* the update loop of update_user_csv, and the append when no row matched
updated_at(existing_users, user, i) ==
    IF i > 0
    THEN [existing_users EXCEPT ![i] = merge_user(existing_users[i], user)]
    ELSE Append(existing_users, user)

\* a variant of the update that keeps the incoming user alone
only_user(existing_users, user) == <<user>>

\* a variant of the update that adds the user without looking for its row
always_added(existing_users, user) == Append(existing_users, user)

updated_users(existing_users, user) ==
    updated_at(existing_users, user, index_of(existing_users, user.login))

\* the lines the rewrite writes: the header, then one per user
rewrite_lines(users) ==
    <<line(User_get_csv_header)>>
        \o [i \in 1..Len(users) |-> line(User_to_csv_string(users[i]))]

RECURSIVE joined(_)
joined(lines) == IF lines = <<>> THEN <<>> ELSE Head(lines) \o joined(Tail(lines))

\* open(filename, 'w'): the file is emptied, or created empty
truncated(files, filename) == put(files, filename, <<>>)

\* a variant of the flush that loses the first of the lines it holds
flushed_dropping(files, filename, pending, k) ==
    put(files, filename, files[filename] \o joined(SubSeq(pending, 2, k)))

\* the first k of the written lines not yet in the file reach it
flushed(files, filename, pending, k) ==
    put(files, filename, files[filename] \o joined(SubSeq(pending, 1, k)))

\* the rewrite of the whole file
rewritten(files, dirs, filename, users) ==
    Outcome(put(files, filename, line(User_get_csv_header) \o user_lines(users)), dirs, "",
            users)

\* update_user_csv from "Read existing users" on, loaded being what load_users
\* answered
update_existing(files, dirs, filename, user, loaded, fault) ==
    IF loaded.exc # "" THEN Outcome(files, dirs, loaded.exc, <<>>)
    ELSE IF fault.write THEN Outcome(files, dirs, "IOError", <<>>)
    ELSE rewritten(files, dirs, filename, updated_users(loaded.val, user))

\* update_user_csv on a directory state where the directory part is done
update_user_file(files, dirs, filename, user, fault) ==
    IF filename \notin DOMAIN files
    THEN IF fault.write
         THEN Outcome(files, dirs, "IOError", <<>>)
         ELSE rewritten(files, dirs, filename, <<user>>)
    ELSE update_existing(files, dirs, filename, user, load_users(files, filename, fault),
                         fault)

update_user_csv(files, dirs, filename, user, fault) ==
    update_user_file(files, ensure_directory(dirs, filename), filename, user, fault)

\* ------------------------------------------------------------------------
\* Inputs: the records the external collaborators hand to the persistence
\* layer.  Identifiers (logins, owners, names, states, dates) hold no comma,
\* quote or line break; free text (title, body, description, homepage) may.

User(login, num_pull_requests, counters) ==
    [kind |-> "User", login |-> login, num_pull_requests |-> num_pull_requests,
     num_repos |-> counters[1], num_followers |-> counters[2],
     num_following |-> counters[3], num_contributions |-> counters[4]]

UserInputs ==
    {User(<<"a">>, 2, <<1, 10, 0, 3>>), User(<<"a">>, 3, <<2, 7, 3, 0>>),
     User(<<"b">>, 2, <<0, 0, 0, 0>>)}

Date_2024_01_10 == <<"2024-01-10">>

Date_2024_01_15 == <<"2024-01-15">>

TimeOfDay == <<"T09:30:00Z">>

\* a pull request whose free text is plain
PlainPullRequest ==
    [kind |-> "PullRequest", title |-> <<"f", "i", "x">>,
     number |-> 1, body |-> <<>>, state |-> <<"closed">>,
     created_at |-> Date_2024_01_15 \o TimeOfDay,
     closed_at |-> Date_2024_01_15 \o TimeOfDay, user |-> <<"a">>,
     commits |-> 1, additions |-> 12, deletions |-> 0, changed_files |-> 2,
     author_association |-> <<"OWNER">>]

PullRequestInputs ==
    {[PlainPullRequest EXCEPT !.title = <<"f", "i", "x", SPACE, QUOTE, "q", QUOTE, LF, "x">>,
                              !.body = <<"a", COMMA, "b", CR, LF, "c">>,
                              !.state = <<"open">>, !.closed_at = None],
     PlainPullRequest,
     [kind |-> "PullRequest", title |-> <<"d", "o", "c">>,
      number |-> 2, body |-> <<QUOTE>>, state |-> <<"closed">>,
      created_at |-> Date_2024_01_10 \o TimeOfDay,
      closed_at |-> Date_2024_01_15 \o TimeOfDay, user |-> <<"b">>,
      commits |-> 0, additions |-> 0, deletions |-> 3, changed_files |-> 1,
      author_association |-> <<"NONE">>]}

\* (owner, name) pairs; "a-b"/"c" and "a"/"b-c" share one table file
RepositoryIds == {<<<<"a", "-", "b">>, <<"c">>>>, <<<<"a">>, <<"b", "-", "c">>>>, <<<<"b">>, <<"c">>>>}

MIT == [key |-> <<"mit">>, name |-> <<"MIT", SPACE, "License">>, url |-> <<"https://api/mit">>]

NoLicense == [key |-> <<>>, name |-> <<>>, url |-> <<>>]

\* a repository whose free text is plain
PlainRepository ==
    [kind |-> "Repository", name |-> <<"c">>, owner |-> <<"a", "-", "b">>,
     description |-> <<"s", "a", "y">>,
     homepage |-> <<"https://x">>, license |-> MIT, forks |-> 2, watchers |-> 21,
     stars |-> 21, date_of_collection |-> Date_2024_01_15]

\* the repository whose homepage URL holds a comma
CommaHomepage ==
    [kind |-> "Repository", name |-> <<"b", "-", "c">>, owner |-> <<"a">>,
     description |-> <<>>,
     homepage |-> <<"https://x/?q=1", COMMA, "2">>, license |-> NoLicense, forks |-> 0,
     watchers |-> 3, stars |-> 3, date_of_collection |-> Date_2024_01_15]

RepositoryInputs ==
    {[PlainRepository EXCEPT !.description = <<"s", "a", "y", SPACE, QUOTE, "h", "i", QUOTE, LF>>,
                             !.homepage = <<>>, !.forks = 1, !.watchers = 20, !.stars = 20,
                             !.date_of_collection = Date_2024_01_10],
     PlainRepository,
     CommaHomepage}

\* the characters free text is made of
Symbols == {"a", QUOTE, COMMA, LF, CR, SPACE}

\* every free text of at most MaxTextLen characters
FreeTexts == UNION {[1..n -> Symbols] : n \in 0..MaxTextLen}

\* the entities the codec is run on: the records above, and every free text in
\* each of the three escaped fields
CodecInputs ==
    UserInputs \cup PullRequestInputs \cup RepositoryInputs
        \cup {[PlainPullRequest EXCEPT !.title = t] : t \in FreeTexts}
        \cup {[PlainPullRequest EXCEPT !.body = t] : t \in FreeTexts}
        \cup {[PlainRepository EXCEPT !.description = t] : t \in FreeTexts}

\* the lists handed to save_users / save_pull_requests: one or two records
ListsOf(S) == {<<x>> : x \in S} \cup {<<x, y>> : x \in S, y \in S}

\* rows delivered before a read fault strikes, at most
MaxFaultRow == 1

Faults ==
    {NoFault}
        \cup {[read |-> k, write |-> FALSE] : k \in 0..MaxFaultRow}
        \cup {[read |-> -1, write |-> TRUE]}

\* most lines a table file is allowed to reach after its header
MaxRows == 3

UsersFile == <<"users.csv">>

ProjectsFile == <<"projects.csv">>

\* a variant of the path that keeps the pull requests of every repository in
\* one table
one_file(owner, repo_name) == <<"projects", "/", "pull_requests", ".csv">>

\* f"projects/{owner}-{repo_name}.csv"
pull_requests_file(owner, repo_name) ==
    <<"projects", "/">> \o owner \o <<"-">> \o repo_name \o <<".csv">>

load_pull_requests(files, owner, repo_name, fault) ==
    load(files, pull_requests_file(owner, repo_name), "PullRequest", fault)

save_repository(files, dirs, repo, fault) == to_CSV(files, dirs, ProjectsFile, repo, fault)

\* the loop of save_pull_requests from its i-th element on, r being how the
\* calls before it ended
RECURSIVE save_pull_requests_from(_, _, _, _)
save_pull_requests_from(r, filename, pull_requests, i) ==
    IF r.exc # "" \/ i > Len(pull_requests) THEN r
    ELSE save_pull_requests_from(to_CSV(r.files, r.dirs, filename, pull_requests[i], NoFault),
                                 filename, pull_requests, i + 1)

save_pull_requests(files, dirs, owner, repo_name, pull_requests) ==
    save_pull_requests_from(Outcome(files, dirs, "", <<>>),
                            pull_requests_file(owner, repo_name), pull_requests, 1)

\* the loop of save_users from its i-th element on
RECURSIVE save_users_from(_, _, _)
save_users_from(r, users, i) ==
    IF r.exc # "" \/ i > Len(users) THEN r
    ELSE save_users_from(update_user_csv(r.files, r.dirs, UsersFile, users[i], NoFault),
                         users, i + 1)

save_users(files, dirs, users) == save_users_from(Outcome(files, dirs, "", <<>>), users, 1)

\* ------------------------------------------------------------------------
\* load_all_pull_requests

\* os.listdir(directory): the names of the files in it, in no particular order
listdir(files, directory) ==
    {SubSeq(f, Len(directory) + 2, Len(f)) : f \in {g \in DOMAIN files : dirname(g) = directory}}

\* the orders in which os.listdir may give the names
Listings(names) ==
    {l \in [1..Cardinality(names) -> names] :
        \A i \in 1..Cardinality(names), j \in 1..Cardinality(names) : l[i] = l[j] => i = j}

\* a variant of the split that cuts at the last "-"
rsplit_once(stem) ==
    IF LastIndexOf(stem, "-") = 0 THEN <<stem>>
    ELSE <<SubSeq(stem, 1, LastIndexOf(stem, "-") - 1),
           SubSeq(stem, LastIndexOf(stem, "-") + 1, Len(stem))>>

\* stem.split('-', 1)
split_once(stem) ==
    IF \A i \in 1..Len(stem) : stem[i] # "-" THEN <<stem>>
    ELSE <<SubSeq(stem, 1, (CHOOSE i \in 1..Len(stem) :
                               stem[i] = "-" /\ \A j \in 1..(i - 1) : stem[j] # "-") - 1),
           SubSeq(stem, (CHOOSE i \in 1..Len(stem) :
                            stem[i] = "-" /\ \A j \in 1..(i - 1) : stem[j] # "-") + 1,
                  Len(stem))>>

\* the pairs (f"{owner}/{repo_name}", pr) appended for the loaded prs
tagged(owner, repo_name, prs) ==
    [i \in 1..Len(prs) |-> <<owner \o <<"/">> \o repo_name, prs[i]>>]

\* all_prs after the pull requests of one table, loaded, were appended
extended(all_prs, name_parts, loaded) ==
    IF loaded.exc # "" THEN Raise(loaded.exc)
    ELSE Ok(all_prs.val \o tagged(name_parts[1], name_parts[2], loaded.val))

\* the body of the loop for one file name
listed(files, all_prs, filename, name_parts) ==
    IF filename[Len(filename)] = ".csv" /\ Len(name_parts) = 2
    THEN extended(all_prs, name_parts,
                  load_pull_requests(files, name_parts[1], name_parts[2], NoFault))
    ELSE all_prs

\* the loop over os.listdir('projects') from the i-th name on
RECURSIVE load_all_from(_, _, _, _)
load_all_from(files, listing, i, all_prs) ==
    IF all_prs.exc # "" \/ i > Len(listing) THEN all_prs
    ELSE load_all_from(files, listing, i + 1,
                       listed(files, all_prs, listing[i],
                              split_once(SubSeq(listing[i], 1, Len(listing[i]) - 1))))

\* load_all_pull_requests(), listing being the answer of os.listdir
load_all_pull_requests(files, dirs, listing) ==
    IF <<"projects">> \notin dirs THEN Ok(<<>>) ELSE load_all_from(files, listing, 1, Ok(<<>>))

\* ------------------------------------------------------------------------
\* A collection run: collect_repository_data counts the pull requests of each
\* author, scrape_users fills in the profile counters, collect_repository
\* saves the repository, the pull requests and the users.

\* the keys of user_prs in insertion order, from the i-th pull request on
RECURSIVE authors_from(_, _, _)
authors_from(pull_requests, i, logins) ==
    IF i > Len(pull_requests) THEN logins
    ELSE authors_from(pull_requests, i + 1,
                      IF /\ Truthy(pull_requests[i].user)
                         /\ \A k \in 1..Len(logins) : logins[k] # pull_requests[i].user
                      THEN Append(logins, pull_requests[i].user)
                      ELSE logins)

\* user_prs[login]
pr_count(pull_requests, login) ==
    Cardinality({i \in 1..Len(pull_requests) : pull_requests[i].user = login})

\* the users list of collect_repository_data after scrape_users gave every
\* user the counters of the profile page
users_of_run(pull_requests, logins, counters) ==
    [k \in 1..Len(logins) |-> User(logins[k], pr_count(pull_requests, logins[k]), counters)]

\* collect_repository from "Scrape and save user data" on
users_saved(r, users) ==
    IF r.exc # "" \/ users = <<>> THEN r ELSE save_users(r.files, r.dirs, users)

\* collect_repository from "Save pull requests" on
pull_requests_saved(r, owner, repo_name, pull_requests, counters) ==
    users_saved(IF r.exc # "" \/ pull_requests = <<>> THEN r
                ELSE save_pull_requests(r.files, r.dirs, owner, repo_name, pull_requests),
                users_of_run(pull_requests, authors_from(pull_requests, 1, <<>>), counters))

\* collect_repository for a repository the API returned with pull_requests,
\* counters being what the profile pages show
collect_repository(files, dirs, repo, pull_requests, counters) ==
    pull_requests_saved(save_repository(files, dirs, repo, NoFault), repo.owner, repo.name,
                        pull_requests, counters)

\* ------------------------------------------------------------------------
\* get_repository_summary

\* the characters of the symbols that stand for several: the dates and the
\* time of day of the records above
characters(symbol) ==
    CASE symbol = "2024-01-10" -> <<"2", "0", "2", "4", "-", "0", "1", "-", "1", "0">>
      [] symbol = "2024-01-15" -> <<"2", "0", "2", "4", "-", "0", "1", "-", "1", "5">>
      [] symbol = "T09:30:00Z" -> <<"T", "0", "9", ":", "3", "0", ":", "0", "0", "Z">>
      [] OTHER -> <<symbol>>

\* a text character by character
RECURSIVE spelled(_)
spelled(text) ==
    IF text = <<>> THEN <<>> ELSE characters(Head(text)) \o spelled(Tail(text))

\* ord(c) of the characters of a timestamp
ord(c) ==
    CASE c \in DigitSet -> 48 + DigitValue(c)
      [] c = "-" -> 45
      [] c = ":" -> 58
      [] c = "T" -> 84
      [] c = "Z" -> 90

\* a < b of two str
str_less(a, b) ==
    \/ Len(a) < Len(b) /\ SubSeq(b, 1, Len(a)) = a
    \/ \E i \in 1..Min(Len(a), Len(b)) :
           /\ SubSeq(a, 1, i - 1) = SubSeq(b, 1, i - 1)
           /\ ord(a[i]) < ord(b[i])

\* a variant of the date part that keeps the whole timestamp
whole_timestamp(created_at) == spelled(created_at)

\* pr.created_at[:10]
date_part(created_at) == SubSeq(spelled(created_at), 1, Min(10, Len(spelled(created_at))))

\* sum(1 for pr in prs if pr.state == state)
count_state(prs, state) == Cardinality({i \in 1..Len(prs) : prs[i].state = state})

\* a variant of the set of users that keeps the empty ones
every_user(prs) == {prs[i].user : i \in 1..Len(prs)}

\* set(pr.user for pr in prs if pr.user)
users_of(prs) == {prs[i].user : i \in {j \in 1..Len(prs) : Truthy(prs[j].user)}}

\* one turn of the loop over the dates
older(oldest_date, pr_date) ==
    IF oldest_date = None \/ str_less(pr_date, oldest_date) THEN pr_date ELSE oldest_date

\* the loop "Get oldest PR date" from its i-th element on
RECURSIVE oldest_from(_, _, _)
oldest_from(prs, i, oldest_date) ==
    IF i > Len(prs) THEN oldest_date
    ELSE oldest_from(prs, i + 1,
                     IF Truthy(prs[i].created_at)
                     THEN older(oldest_date, date_part(prs[i].created_at))
                     ELSE oldest_date)

NotAvailable == <<"N", "/", "A">>

\* oldest_date or 'N/A'
or_not_available(oldest_date) == IF Truthy(oldest_date) THEN oldest_date ELSE NotAvailable

\* the dictionary returned for the loaded prs
summary_of(prs) ==
    [open_prs |-> count_state(prs, <<"open">>),
     closed_prs |-> count_state(prs, <<"closed">>),
     num_users |-> Cardinality(users_of(prs)),
     oldest_pr_date |-> or_not_available(oldest_from(prs, 1, None))]

\* get_repository_summary after its load_pull_requests ended with loaded
summarized(loaded) ==
    IF loaded.exc # "" THEN loaded
    ELSE [exc |-> "", val |-> summary_of(loaded.val), logged |-> loaded.logged]

get_repository_summary(files, owner, repo_name, fault) ==
    summarized(load_pull_requests(files, owner, repo_name, fault))

\* The pull requests of the summary scenario, numbered 1 to 3 (the first has
\* no user), a fourth that is neither open nor closed and has no created_at,
\* and another number 3 whose state is not exactly "open".
SummaryPullRequest(number, state, created_at, user) ==
    [PlainPullRequest EXCEPT !.number = number, !.state = state,
                             !.created_at = created_at, !.closed_at = None,
                             !.user = user]

Date_2024_02_01 == <<"2", "0", "2", "4", "-", "0", "2", "-", "0", "1">>

alice == <<"a", "l", "i", "c", "e">>

Scenario ==
    <<SummaryPullRequest(1, <<"open">>, Date_2024_01_15, <<>>),
      SummaryPullRequest(2, <<"closed">>, Date_2024_01_10 \o TimeOfDay, alice),
      SummaryPullRequest(3, <<"open">>, Date_2024_02_01, alice)>>

SummaryInputs ==
    {Scenario[1], Scenario[2], Scenario[3],
     SummaryPullRequest(4, <<"merged">>, <<>>, <<"b">>),
     SummaryPullRequest(3, <<"open", SPACE>>, Date_2024_02_01 \o TimeOfDay, <<>>)}

\* ------------------------------------------------------------------------
\* from_json: the entities made of the records the GitHub API answers.  A
\* JSON object is its fields (key -> value), JSON null is Null; a text or a
\* number is itself, and a text that is null is None.

Null == [type |-> "null"]

Object(fields) == [type |-> "object", fields |-> fields]

EmptyObject == Object(<<>>)

\* data.get(key, default)
json_get(fields, key, default) == IF key \in DOMAIN fields THEN fields[key] ELSE default

\* value.get(key, default) on what may be None
get_of(value, key, default) ==
    IF value.type = "null" THEN Raise("AttributeError")
    ELSE Ok(json_get(value.fields, key, default))

\* the truth value of a dictionary or None
truthy(value) == value.type = "object" /\ DOMAIN value.fields # {}

\* text or ''
or_empty(text) == IF text = None \/ text = <<>> THEN <<>> ELSE text

\* a variant of License.from_json without the test for None
License_from_json_unchecked(data) ==
    IF data.type = "null" THEN Raise("AttributeError")
    ELSE Ok([key |-> json_get(data.fields, "key", <<>>),
             name |-> json_get(data.fields, "name", <<>>),
             url |-> json_get(data.fields, "url", <<>>)])

License_from_json(data) ==
    IF data.type = "null" THEN Ok(NoLicense)
    ELSE Ok([key |-> json_get(data.fields, "key", <<>>),
             name |-> json_get(data.fields, "name", <<>>),
             url |-> json_get(data.fields, "url", <<>>)])

User_from_json(data) ==
    IF data.type = "null" THEN Raise("AttributeError")
    ELSE Ok(User(json_get(data.fields, "login", <<>>), 0, <<0, 0, 0, 0>>))

\* user.get('login', '') if user else ''
login_of(user) == IF truthy(user) THEN json_get(user.fields, "login", <<>>) ELSE <<>>

\* one of commits, additions, deletions, changed_files
detail(pr_details, key) ==
    IF truthy(pr_details) THEN json_get(pr_details.fields, key, 0) ELSE 0

\* PullRequest.from_json once pr_url was evaluated
PullRequest_of(issue, pr_details, pr_url) ==
    IF pr_url.exc # "" THEN Raise(pr_url.exc)
    ELSE Ok([kind |-> "PullRequest",
             title |-> json_get(issue, "title", <<>>),
             number |-> json_get(issue, "number", 0),
             body |-> or_empty(json_get(issue, "body", <<>>)),
             state |-> json_get(issue, "state", <<>>),
             created_at |-> json_get(issue, "created_at", <<>>),
             closed_at |-> json_get(issue, "closed_at", None),
             user |-> login_of(json_get(issue, "user", EmptyObject)),
             commits |-> detail(pr_details, "commits"),
             additions |-> detail(pr_details, "additions"),
             deletions |-> detail(pr_details, "deletions"),
             changed_files |-> detail(pr_details, "changed_files"),
             author_association |->
                 IF truthy(pr_details)
                 THEN json_get(pr_details.fields, "author_association",
                               json_get(issue, "author_association", <<>>))
                 ELSE json_get(issue, "author_association", <<>>)])

PullRequest_from_json(issue_data, pr_details) ==
    PullRequest_of(issue_data.fields, pr_details,
                   get_of(json_get(issue_data.fields, "pull_request", EmptyObject), "url", <<>>))

\* Repository.from_json once License.from_json answered
Repository_of(data, date_of_collection, license_obj) ==
    IF license_obj.exc # "" THEN Raise(license_obj.exc)
    ELSE Ok([kind |-> "Repository",
             name |-> json_get(data, "name", <<>>),
             owner |-> login_of(json_get(data, "owner", EmptyObject)),
             description |-> or_empty(json_get(data, "description", <<>>)),
             homepage |-> or_empty(json_get(data, "homepage", <<>>)),
             license |-> license_obj.val,
             forks |-> json_get(data, "forks_count", 0),
             watchers |-> json_get(data, "watchers_count", 0),
             stars |-> json_get(data, "stargazers_count", 0),
             date_of_collection |-> date_of_collection])

\* data.get('license') is None when the key is absent
Repository_from_json(data, date_of_collection) ==
    Repository_of(data.fields, date_of_collection,
                  License_from_json(json_get(data.fields, "license", Null)))

\* from_json of the class kind; details is the second argument of
\* PullRequest.from_json
from_json(kind, data, details) ==
    CASE kind = "License" -> License_from_json(data)
      [] kind = "User" -> User_from_json(data)
      [] kind = "PullRequest" -> PullRequest_from_json(data, details)
      [] kind = "Repository" -> Repository_from_json(data, Date_2024_01_15)

\* The records of the API with every key, and the values a key that holds a
\* record may have in its place.
FullLicense == [key |-> <<"mit">>, name |-> <<"MIT">>, url |-> <<"u">>]

FullUser == [login |-> <<"a">>]

FullDetails ==
    [commits |-> 1, additions |-> 12, deletions |-> 3, changed_files |-> 2,
     author_association |-> <<"MEMBER">>]

FullIssue ==
    [title |-> <<"f", "i", "x">>, number |-> 7, body |-> None, state |-> <<"open">>,
     created_at |-> Date_2024_01_15, closed_at |-> Date_2024_01_15,
     author_association |-> <<"OWNER">>]

FullRepository ==
    [name |-> <<"c">>, description |-> None, homepage |-> <<"h">>, forks_count |-> 2,
     watchers_count |-> 21, stargazers_count |-> 21]

\* the record with the keys of present only
restricted(full, present) == [k \in present |-> full[k]]

\* a record filled from full under key, for each way the key may be filled
with_key(fields, key, value) ==
    [k \in DOMAIN fields \cup {key} |-> IF k = key THEN value ELSE fields[k]]

\* what stands where a record is expected: nothing, null, {} or the record
Nested(full) == {Null, EmptyObject, Object(full)}

\* fields as they are and with key filled in each of the ways of values
variants(fields, key, values) == {fields} \cup {with_key(fields, key, v) : v \in values}

\* the records from_json is given: any subset of the keys, the keys that
\* hold a record absent, null, empty or filled
IssueRecords ==
    UNION {variants(restricted(FullIssue, present), "user", Nested(FullUser)) :
              present \in SUBSET DOMAIN FullIssue}

PullRequestRecords ==
    IssueRecords
        \cup UNION {variants(issue, "pull_request", Nested([url |-> <<"u">>])) :
                       issue \in {i \in IssueRecords : DOMAIN i \subseteq {"title", "user"}}}

DetailRecords ==
    {Null, EmptyObject}
        \cup {Object(restricted(FullDetails, present)) :
                  present \in {DOMAIN FullDetails, {"commits"}, {"author_association"}}}

RepositoryRecords ==
    UNION {variants(repo, "license",
                    Nested(FullLicense) \cup {Object(restricted(FullLicense, {"key"}))}) :
              repo \in UNION {variants(restricted(FullRepository, present), "owner",
                                       Nested(FullUser)) :
                                  present \in SUBSET DOMAIN FullRepository}}

LicenseRecords ==
    {Null} \cup {Object(restricted(FullLicense, present)) : present \in SUBSET DOMAIN FullLicense}

UserRecords == {EmptyObject, Object(FullUser)}

\* ------------------------------------------------------------------------
\* scraper.py: GitHubScraper._parse_number

\* longest text handed to _parse_number
MaxNumberLen == 4

\* c.lower() of the letters that occur
lower_char(c) ==
    CASE c = "K" -> "k"
      [] c = "M" -> "m"
      [] c = "I" -> "i"
      [] c = "N" -> "n"
      [] c = "F" -> "f"
      [] c = "A" -> "a"
      [] OTHER -> c

lower(text) == [i \in 1..Len(text) |-> lower_char(text[i])]

IsDigit(c) == c \in DigitSet

IsDot(c) == c = "."

\* the characters re.sub(r'[^\d.]', '', text) keeps
IsDigitOrDot(c) == IsDigit(c) \/ IsDot(c)

RECURSIVE Pow10(_)
Pow10(n) == IF n = 0 THEN 1 ELSE 10 * Pow10(n - 1)

\* the digits after the decimal point
decimals(t) == IF SelectSeq(t, IsDot) = <<>> THEN 0 ELSE Len(t) - LastIndexOf(t, ".")

\* float() of a text without surrounding whitespace, sign or exponent: "inf",
\* "infinity" and "nan" in any case, or digits with at most one point; a
\* finite value is kept exactly, as mantissa / 10^scale
float_literal(t) ==
    IF lower(t) \in {<<"i", "n", "f">>, <<"i", "n", "f", "i", "n", "i", "t", "y">>}
    THEN [exc |-> "", kind |-> "inf", mantissa |-> 0, scale |-> 0]
    ELSE IF lower(t) = <<"n", "a", "n">>
    THEN [exc |-> "", kind |-> "nan", mantissa |-> 0, scale |-> 0]
    ELSE IF /\ SelectSeq(t, IsDigitOrDot) = t
            /\ SelectSeq(t, IsDigit) # <<>>
            /\ Len(SelectSeq(t, IsDot)) <= 1
    THEN [exc |-> "", kind |-> "finite", mantissa |-> DecimalValue(SelectSeq(t, IsDigit)),
          scale |-> decimals(t)]
    ELSE [exc |-> "ValueError", kind |-> "", mantissa |-> 0, scale |-> 0]

\* float(s)
float(s) == float_literal(rstrip(lstrip(s)))

\* int(num * factor) of a float: infinity raises OverflowError, nan ValueError
int_of_float(num, factor) ==
    IF num.exc # "" THEN Raise(num.exc)
    ELSE IF num.kind = "inf" THEN Raise("OverflowError")
    ELSE IF num.kind = "nan" THEN Raise("ValueError")
    ELSE Ok((num.mantissa * factor) \div Pow10(num.scale))

\* the handlers "except ValueError": return 0 (or pass, then return 0)
except_ValueError(r) == IF r.exc = "ValueError" THEN Ok(0) ELSE r

\* "Try to extract just the number"
cleaned_number(cleaned) ==
    IF cleaned # <<>> THEN except_ValueError(int_of_float(float(cleaned), 1)) ELSE Ok(0)

\* _parse_number from the suffix tests on, text being stripped and lowered
parse_stripped(text) ==
    IF "k" \in {text[i] : i \in 1..Len(text)}
    THEN except_ValueError(int_of_float(float(replace(text, "k", <<>>)), 1000))
    ELSE IF "m" \in {text[i] : i \in 1..Len(text)}
    THEN except_ValueError(int_of_float(float(replace(text, "m", <<>>)), 1000000))
    ELSE cleaned_number(SelectSeq(text, IsDigitOrDot))

parse_number(text) ==
    IF ~Truthy(text) THEN Ok(0) ELSE parse_stripped(lower(rstrip(lstrip(text))))

\* the characters of the texts handed to _parse_number
NumberSymbols == {"1", ".", "k", "m", SPACE, "i", "n", "f"}

\* the inputs of the unit tests and of the docstring, None, "nan" before a
\* suffix, and every text of at most MaxNumberLen characters
NumberTexts ==
    {None, <<"a", "b", "c">>, <<"1", "k">>, <<"1", ".", "5", "k">>, <<"2", ".", "5", "K">>,
     <<"1", "m">>, <<"1", ".", "5", "M">>, <<"1", ".", "2", "k">>, <<"1", "0", "0">>,
     <<"n", "a", "n", "k">>}
        \cup UNION {[1..n -> NumberSymbols] : n \in 0..MaxNumberLen}

\* ------------------------------------------------------------------------
\* The state machine

VARIABLES
    fs,       \* path -> text of every existing file
    folders,  \* the existing sub-directories
    result,   \* the last call: a "write" or a "scan", the exception it raised, the
              \* list it returned, whether it changed a file, whether it printed
              \* a diagnostic, and for a scan the path it was asked to read
    codec,    \* the record codec at work on one entity (SpecCodec)
    procs     \* the processes that are inside a call, each with its position in
              \* the call and its local variables; none when calls run one by one

vars == <<fs, folders, result, codec, procs>>

Returned(call, exc, val, changed, logged) ==
    [call |-> call, exc |-> exc, val |-> val, changed |-> changed, logged |-> logged,
     file |-> <<>>]

NoCall == Returned("", "", <<>>, FALSE, FALSE)

Idle == [stage |-> "idle"]

Init ==
    /\ procs = <<>>
    /\ fs = <<>>
    /\ folders = {}
    /\ result = NoCall
    /\ codec = Idle

IsLF(c) == c = LF

\* the bounds on what is explored: lines per file and stored pull-request counts
WithinBounds(r) ==
    /\ \A f \in DOMAIN r.files : Len(SelectSeq(r.files[f], IsLF)) <= MaxRows + 1
    /\ \A i \in 1..Len(r.users) : r.users[i].num_pull_requests <= MaxStoredPRs

\* a writing call that ended in r
Wrote(r) ==
    /\ WithinBounds(r)
    /\ fs' = r.files
    /\ folders' = r.dirs
    /\ result' = Returned("write", r.exc, <<>>, r.files # fs, FALSE)
    /\ UNCHANGED <<codec, procs>>

\* a variant of the open that truncates or creates the file
opened_to_write(files, filename) ==
    [f \in DOMAIN files \cup {filename} |-> IF f = filename THEN <<>> ELSE files[f]]

\* the files after open(filename, 'r', newline='', encoding='utf-8')
opened_to_read(files, filename) == files

\* a reading call on filename that ended with r
Read(filename, r) ==
    /\ result' = [Returned("scan", r.exc, r.val, FALSE, r.logged) EXCEPT !.file = filename]
    /\ fs' = opened_to_read(fs, filename)
    /\ UNCHANGED <<folders, codec, procs>>

UserCalls == {<<UsersFile, u>> : u \in UserInputs}

RepositoryCalls == {<<ProjectsFile, r>> : r \in RepositoryInputs}

\* the repository whose pull requests the product specification collects
Collected == <<<<"a">>, <<"b", "-", "c">>>>

PullRequestCalls ==
    {<<pull_requests_file(Collected[1], Collected[2]), pr>> : pr \in PullRequestInputs}

TableCalls == UserCalls \cup RepositoryCalls \cup PullRequestCalls

\* to_CSV(filename, obj) for a call <<filename, obj>> of Calls
ToCSV(Calls, F) ==
    \E call \in Calls, fault \in F :
        /\ Wrote(to_CSV(fs, folders, call[1], call[2], fault))

UpdateUserCSV(F) ==
    \E user \in UserInputs, fault \in F :
        /\ Wrote(update_user_csv(fs, folders, UsersFile, user, fault))

SaveUsers ==
    \E users \in ListsOf(UserInputs) :
        /\ Wrote(save_users(fs, folders, users))

SaveRepository(F) ==
    \E repo \in RepositoryInputs, fault \in F :
        /\ Wrote(save_repository(fs, folders, repo, fault))

SavePullRequests(Ids) ==
    \E id \in Ids, pull_requests \in ListsOf(PullRequestInputs) :
        /\ Wrote(save_pull_requests(fs, folders, id[1], id[2], pull_requests))

LoadUsers(F) ==
    \E fault \in F :
        /\ Read(UsersFile, load_users(fs, UsersFile, fault))

LoadRepositories(F) ==
    \E fault \in F :
        /\ Read(ProjectsFile, load_repositories(fs, ProjectsFile, fault))

LoadPullRequests(F) ==
    \E id \in RepositoryIds, fault \in F :
        /\ Read(pull_requests_file(id[1], id[2]),
                load_pull_requests(fs, id[1], id[2], fault))

\* the write paths on the three kinds of table, no faults
Next ==
    \/ ToCSV(TableCalls, {NoFault})
    \/ UpdateUserCSV({NoFault})
    \/ SaveRepository({NoFault})
    \/ SavePullRequests({Collected})
    \/ SaveUsers

Spec == Init /\ [][Next]_vars

\* the users table alone: every call on it, faults included
NextUsers ==
    \/ ToCSV(UserCalls, Faults)
    \/ UpdateUserCSV(Faults)
    \/ LoadUsers(Faults)

SpecUsers == Init /\ [][NextUsers]_vars

NextRepositories ==
    \/ SaveRepository(Faults)
    \/ LoadRepositories(Faults)

SpecRepositories == Init /\ [][NextRepositories]_vars

\* the per-repository tables: the write path and the scan, faults on the scan
NextPullRequests ==
    \/ SavePullRequests(RepositoryIds)
    \/ LoadPullRequests(Faults)

SpecPullRequests == Init /\ [][NextPullRequests]_vars

\* Collection runs on two repositories whose pull requests 1 (by "a") and 2
\* (by "b") the API returns in part or in whole; the profile pages show the
\* counters of "a".
CollectedRepositories ==
    {[PlainRepository EXCEPT !.owner = Collected[1], !.name = Collected[2]],
     [PlainRepository EXCEPT !.owner = <<"b">>, !.name = <<"c">>]}

CollectedPullRequests ==
    {pr \in PullRequestInputs : pr.state = <<"closed">>}

CollectRepository ==
    \E repo \in CollectedRepositories, pull_requests \in ListsOf(CollectedPullRequests) :
        /\ Wrote(collect_repository(fs, folders, repo, pull_requests, <<1, 10, 0, 3>>))

SpecCollection == Init /\ [][CollectRepository]_vars

\* two repositories without "-" in owner and name, "b"/"c" and "c"/"b"
ScopedIds == {<<<<"b">>, <<"c">>>>, <<<<"c">>, <<"b">>>>}

\* save_pull_requests on the tables of these two
SpecScopedTables == Init /\ [][SavePullRequests(ScopedIds)]_vars

\* the files after those of listing were opened to be read, from the i-th on
RECURSIVE opened_each(_, _, _)
opened_each(files, listing, i) ==
    IF i > Len(listing) THEN files
    ELSE opened_each(opened_to_read(files, <<"projects", "/">> \o listing[i]), listing, i + 1)

\* a load_all_pull_requests call, os.listdir answering listing
LoadAllPullRequests ==
    \E listing \in Listings(listdir(fs, <<"projects">>)) :
        /\ result' = Returned("scan_all", load_all_pull_requests(fs, folders, listing).exc,
                              load_all_pull_requests(fs, folders, listing).val, FALSE, FALSE)
        /\ fs' = opened_each(fs, listing, 1)
        /\ UNCHANGED <<folders, codec, procs>>

\* the pull-request tables of three repositories, two of which share a file,
\* and the scan of all of them
NextAllPullRequests ==
    \/ SavePullRequests(RepositoryIds)
    \/ LoadAllPullRequests

SpecAllPullRequests == Init /\ [][NextAllPullRequests]_vars

\* the three scans, on tables that exist and on tables that do not: users are
\* stored with to_CSV, pull requests for one repository, no repository
NextScans ==
    \/ ToCSV(UserCalls, {NoFault})
    \/ SavePullRequests({Collected})
    \/ LoadUsers(Faults)
    \/ LoadRepositories(Faults)
    \/ LoadPullRequests(Faults)

SpecScans == Init /\ [][NextScans]_vars

\* a summary that ended with r
Summarized(filename, r) ==
    /\ result' = [Returned("summary", r.exc, r.val, FALSE, r.logged) EXCEPT !.file = filename]
    /\ fs' = opened_to_read(fs, filename)
    /\ UNCHANGED <<folders, codec, procs>>

GetRepositorySummary(F) ==
    \E id \in RepositoryIds, fault \in F :
        /\ Summarized(pull_requests_file(id[1], id[2]),
                      get_repository_summary(fs, id[1], id[2], fault))

SummaryCalls ==
    {<<pull_requests_file(Collected[1], Collected[2]), pr>> : pr \in SummaryInputs}

\* the summary of the tables that to_CSV makes of the pull requests above
NextSummary ==
    \/ ToCSV(SummaryCalls, {NoFault})
    \/ GetRepositorySummary(Faults)

SpecSummary == Init /\ [][NextSummary]_vars

\* The record codec alone: an entity is encoded by to_csv_string, the row is
\* written under its header and read back as the scans read it.
InitCodec ==
    /\ procs = <<>>
    /\ fs = <<>>
    /\ folders = {}
    /\ result = NoCall
    /\ \E e \in CodecInputs : codec = [stage |-> "input", entity |-> e]

Encode ==
    /\ codec.stage = "input"
    /\ codec' = [stage |-> "encoded", entity |-> codec.entity,
                 text |-> to_csv_string(codec.entity)]
    /\ UNCHANGED <<fs, folders, result, procs>>

Decode ==
    /\ codec.stage = "encoded"
    /\ LET table == line(get_csv_header(codec.entity)) \o line(codec.text)
       IN  codec' = [stage |-> "decoded", entity |-> codec.entity, text |-> codec.text,
                     decoded |-> decode_rows(codec.entity.kind, DictReader(table), <<>>)]
    /\ UNCHANGED <<fs, folders, result, procs>>

NextCodec == Encode \/ Decode

SpecCodec == InitCodec /\ [][NextCodec]_vars

\* _parse_number alone: a text is handed to it and it returns or raises
InitParseNumber ==
    /\ procs = <<>>
    /\ fs = <<>>
    /\ folders = {}
    /\ result = NoCall
    /\ \E text \in NumberTexts : codec = [stage |-> "text", text |-> text]

ParseNumber ==
    /\ codec.stage = "text"
    /\ codec' = [stage |-> "number", text |-> codec.text, parsed |-> parse_number(codec.text)]
    /\ UNCHANGED <<fs, folders, result, procs>>

SpecParseNumber == InitParseNumber /\ [][ParseNumber]_vars

\* from_csv_row alone: a table of one data row is read by csv.DictReader and
\* the row is decoded.  The row is that of a plain entity with one integer
\* column varied: the column is not in the header, the row ends before it,
\* the field is empty, a space, digits, or digits after a space.
ColumnsOf(kind) ==
    CASE kind = "User" -> UserColumns
      [] kind = "PullRequest" -> PullRequestColumns
      [] kind = "Repository" -> RepositoryColumns

\* the columns from_csv_row passes through int()
IntegerColumns(kind) ==
    CASE kind = "User" ->
            {"num_pull_requests", "num_repos", "num_followers", "num_following",
             "num_contributions"}
      [] kind = "PullRequest" ->
            {"number", "commits", "additions", "deletions", "changed_files"}
      [] kind = "Repository" -> {"forks", "watchers", "stars"}

FieldVariants == {"absent", "short", "blank", "space", "digits", "padded"}

field_text(variant) ==
    CASE variant = "blank" -> <<>>
      [] variant = "space" -> <<SPACE>>
      [] variant = "digits" -> <<"4", "2">>
      [] variant = "padded" -> <<SPACE, "7">>
      [] OTHER -> <<"1">>

position(columns, column) == CHOOSE i \in 1..Len(columns) : columns[i] = column

IsNotNone(x) == x # None

\* the header line: without column when the column is absent
header_fields(columns, column, variant) ==
    SelectSeq([i \in 1..Len(columns) |->
                  IF variant = "absent" /\ columns[i] = column THEN None ELSE <<columns[i]>>],
              IsNotNone)

\* the data line: the varied field in its column
data_fields(kind, columns, column, variant) ==
    SelectSeq([i \in 1..Len(columns) |->
                  IF columns[i] = column
                  THEN (IF variant \in {"absent", "short"} THEN None ELSE field_text(variant))
                  ELSE IF variant = "short" /\ i > position(columns, column) THEN None
                  ELSE IF columns[i] \in IntegerColumns(kind) THEN <<"1">>
                  ELSE <<"x">>],
              IsNotNone)

row_table(kind, column, variant) ==
    line(join(header_fields(ColumnsOf(kind), column, variant), COMMA))
        \o line(join(data_fields(kind, ColumnsOf(kind), column, variant), COMMA))

InitRows ==
    /\ procs = <<>>
    /\ fs = <<>>
    /\ folders = {}
    /\ result = NoCall
    /\ \E kind \in {"User", "PullRequest", "Repository"}, variant \in FieldVariants :
           \E column \in IntegerColumns(kind) :
               /\ DictReader(row_table(kind, column, variant)) # <<>>
               /\ codec = [stage |-> "row", kind |-> kind, column |-> column,
                           variant |-> variant,
                           row |-> DictReader(row_table(kind, column, variant))[1]]

FromCSVRow ==
    /\ codec.stage = "row"
    /\ codec' = [stage |-> "entity", kind |-> codec.kind, column |-> codec.column,
                 variant |-> codec.variant, row |-> codec.row,
                 decoded |-> from_csv_row(codec.kind, codec.row)]
    /\ UNCHANGED <<fs, folders, result, procs>>

NextRows == FromCSVRow

SpecRows == InitRows /\ [][NextRows]_vars

\* from_json alone, on the records above
InitFromJson ==
    /\ procs = <<>>
    /\ fs = <<>>
    /\ folders = {}
    /\ result = NoCall
    /\ \/ \E data \in PullRequestRecords, details \in DetailRecords :
              codec = [stage |-> "json", kind |-> "PullRequest", data |-> Object(data),
                       details |-> details]
       \/ \E data \in RepositoryRecords :
              codec = [stage |-> "json", kind |-> "Repository", data |-> Object(data),
                       details |-> Null]
       \/ \E data \in UserRecords \cup LicenseRecords :
              \E kind \in {"User", "License"} :
                  /\ (kind = "User") = (data \in UserRecords)
                  /\ codec = [stage |-> "json", kind |-> kind, data |-> data,
                              details |-> Null]

FromJson ==
    /\ codec.stage = "json"
    /\ codec' = [stage |-> "from_json", kind |-> codec.kind, data |-> codec.data,
                 details |-> codec.details,
                 decoded |-> from_json(codec.kind, codec.data, codec.details)]
    /\ UNCHANGED <<fs, folders, result, procs>>

SpecFromJson == InitFromJson /\ [][FromJson]_vars

\* ------------------------------------------------------------------------
\* Properties

\* the kind of entity a table holds, by its path
kind_of(filename) ==
    IF filename = UsersFile THEN "User"
    ELSE IF filename = ProjectsFile THEN "Repository"
    ELSE "PullRequest"

CollectedFile == pull_requests_file(Collected[1], Collected[2])

\* the header of each table as the file-format table of the specification
\* gives it
CanonicalHeader(kind) ==
    CASE kind = "Repository" ->
            <<"name", ",", "owner", ",", "description", ",", "homepage", ",", "license_key",
              ",", "license_name", ",", "forks", ",", "watchers", ",", "stars", ",",
              "date_of_collection">>
      [] kind = "PullRequest" ->
            <<"number", ",", "title", ",", "body", ",", "state", ",", "created_at", ",",
              "closed_at", ",", "user", ",", "commits", ",", "additions", ",", "deletions",
              ",", "changed_files", ",", "author_association">>
      [] kind = "User" ->
            <<"login", ",", "num_pull_requests", ",", "num_repos", ",", "num_followers", ",",
              "num_following", ",", "num_contributions">>

\* the text before the first line feed
first_line(text) ==
    IF \E k \in 1..Len(text) : text[k] = LF
    THEN SubSeq(text, 1, (CHOOSE k \in 1..Len(text) :
                              text[k] = LF /\ \A j \in 1..(k - 1) : text[j] # LF) - 1)
    ELSE text

\* the key of a stored row, and the key of an entity, field by field
row_key(row, kind) ==
    CASE kind = "Repository" -> <<get(row, "owner", <<>>), get(row, "name", <<>>)>>
      [] kind = "PullRequest" -> <<get(row, "number", <<>>)>>
      [] kind = "User" -> <<get(row, "login", <<>>)>>

entity_key(obj) ==
    CASE obj.kind = "Repository" -> <<obj.owner, obj.name>>
      [] obj.kind = "PullRequest" -> <<str(obj.number)>>
      [] obj.kind = "User" -> <<obj.login>>

\* the data rows of the table filename, none when there is no such file
stored_rows(filename) == IF filename \in DOMAIN fs THEN DictReader(fs[filename]) ELSE <<>>

Range(seq) == {seq[i] : i \in 1..Len(seq)}

distinct_keys(rows, kind) ==
    \A i \in 1..Len(rows), j \in 1..Len(rows) :
        row_key(rows[i], kind) = row_key(rows[j], kind) => i = j

\* the three tables exist and each holds at least two rows
AllTablesFilled ==
    /\ DOMAIN fs = {UsersFile, ProjectsFile, CollectedFile}
    /\ \A f \in DOMAIN fs : Len(stored_rows(f)) >= 2

\* C1: after any sequence of save_repository, save_pull_requests and
\* save_users calls from the empty working directory, without I/O failures,
\* no two rows of users.csv share a login, no two rows of a repository's
\* pull-request table share a number and no two rows of projects.csv share
\* owner and name.
C1_UniqueKeys == \A f \in DOMAIN fs : distinct_keys(stored_rows(f), kind_of(f))

\* the three tables are filled and the last save met only keys already stored
C1_Witness == AllTablesFilled /\ result.call = "write" /\ ~result.changed

\* the table filename is what the first append of obj to a new table leaves
freshly_holds(filename, obj) ==
    /\ filename \in DOMAIN fs
    /\ fs[filename] = line(get_csv_header(obj)) \o line(to_csv_string(obj))

\* C2: appending the same entity to a table a second time with to_CSV leaves
\* the header and exactly one data row, for each of the three kinds of entity.
C2_IdempotentAppend ==
    \A call \in TableCalls :
        freshly_holds(call[1], call[2]) =>
            \A r \in {to_CSV(fs, folders, call[1], call[2], NoFault)} :
                /\ r.exc = ""
                /\ Len(DictReader(r.files[call[1]])) = 1
                /\ first_line(r.files[call[1]]) = CanonicalHeader(call[2].kind)

\* each of the three tables holds the one row of its first append, and the
\* last call appended nothing
C2_Witness ==
    /\ result.call = "write"
    /\ ~result.changed
    /\ \E u \in UserCalls, r \in RepositoryCalls, pr \in PullRequestCalls :
           freshly_holds(u[1], u[2]) /\ freshly_holds(r[1], r[2]) /\ freshly_holds(pr[1], pr[2])

\* the users stored in users.csv, and those stored after update_user_csv(user)
stored_users == load_users(fs, UsersFile, NoFault).val

users_after(user) ==
    load_users(update_user_csv(fs, folders, UsersFile, user, NoFault).files, UsersFile,
               NoFault).val

larger(a, b) == IF a >= b THEN a ELSE b

\* what the row old has to become when user is merged into it
merged_as_specified(old, new, user) ==
    /\ new.login = old.login
    /\ new.num_pull_requests = old.num_pull_requests + user.num_pull_requests
    /\ new.num_repos = larger(old.num_repos, user.num_repos)
    /\ new.num_followers = larger(old.num_followers, user.num_followers)
    /\ new.num_following = larger(old.num_following, user.num_following)
    /\ new.num_contributions = larger(old.num_contributions, user.num_contributions)

\* C3: update_user_csv on a table that holds a row with the incoming login
\* stores num_pull_requests = old + incoming and the maximum of old and
\* incoming in num_repos, num_followers, num_following and
\* num_contributions (the first such row, should the table hold several);
\* every other row stays as it was.
C3_MergeAccumulation ==
    \A user \in UserInputs, before \in {stored_users} :
        \A i \in 1..Len(before), after \in {users_after(user)} :
            (/\ before[i].login = user.login
             /\ \A j \in 1..(i - 1) : before[j].login # user.login)
                => /\ Len(after) = Len(before)
                   /\ merged_as_specified(before[i], after[i], user)
                   /\ \A j \in 1..Len(before) : j # i => after[j] = before[j]

\* users.csv holds the row of "a" after 3 and 2 pull requests were merged: 5
\* pull requests, and the 10 followers that met an incoming 7
C3_Witness ==
    /\ result.changed
    /\ User(<<"a">>, 5, <<2, 10, 3, 3>>) \in Range(stored_users)

\* C4: in every state reached by to_CSV and update_user_csv calls, the first
\* line of every existing table is the canonical header of its kind of
\* entity.
C4_HeaderFirst == \A f \in DOMAIN fs : first_line(fs[f]) = CanonicalHeader(kind_of(f))

\* the three tables exist, the pull-request table holds the single row it was
\* created with, and the last call wrote
C4_Witness ==
    /\ DOMAIN fs = {UsersFile, ProjectsFile, CollectedFile}
    /\ Len(stored_rows(CollectedFile)) = 1
    /\ Len(stored_rows(UsersFile)) = 2
    /\ result.changed

\* the key of obj is among the keys of the rows of the table filename
key_stored(filename, obj) ==
    \E row \in Range(stored_rows(filename)) : row_key(row, obj.kind) = entity_key(obj)

\* C5: to_CSV with an entity whose key the table already holds returns
\* without an exception and leaves every file as it was, whatever the other
\* fields of the entity: a stored pull request is not modified and a stored
\* repository keeps its date_of_collection.
C5_FirstWriteWins ==
    \A call \in TableCalls :
        key_stored(call[1], call[2]) =>
            to_CSV(fs, folders, call[1], call[2], NoFault) = Outcome(fs, folders, "", <<>>)

\* projects.csv holds the repository collected on 2024-01-10 and the
\* pull-request table the pull request 1 still open, both also offered with
\* other fields, and the last call appended nothing
C5_Witness ==
    /\ result.call = "write"
    /\ ~result.changed
    /\ \E r \in Range(load_repositories(fs, ProjectsFile, NoFault).val) :
           r.owner = <<"a", "-", "b">> /\ r.name = <<"c">>
               /\ r.date_of_collection = Date_2024_01_10
    /\ \E pr \in Range(load_pull_requests(fs, Collected[1], Collected[2], NoFault).val) :
           pr.number = 1 /\ pr.state = <<"open">>

IsNotCR(c) == c # CR

\* a free text on one line: carriage returns dropped, each line feed a space
single_line(s) ==
    [i \in 1..Len(SelectSeq(s, IsNotCR)) |->
        IF SelectSeq(s, IsNotCR)[i] = LF THEN SPACE ELSE SelectSeq(s, IsNotCR)[i]]

\* the entity with its free text on one line and its license as the table
\* keeps it (key and name)
stored_form(e) ==
    CASE e.kind = "User" -> e
      [] e.kind = "PullRequest" ->
            [e EXCEPT !.title = single_line(e.title), !.body = single_line(e.body)]
      [] e.kind = "Repository" ->
            [e EXCEPT !.description = single_line(e.description), !.license.url = <<>>]

\* C6: for every entity e of each kind, decoding the row of to_csv_string(e)
\* through the table's row reader and from_csv_row yields an entity equal to
\* e field by field (free text compared on one line, the license by its key
\* and name).
C6_RoundTrip ==
    codec.stage = "decoded" => codec.decoded = Ok(<<stored_form(codec.entity)>>)

\* the columns of the escaped fields of an entity
free_text_columns(e) ==
    CASE e.kind = "User" -> {}
      [] e.kind = "PullRequest" -> {<<2, e.title>>, <<3, e.body>>}
      [] e.kind = "Repository" -> {<<3, e.description>>}

well_formed(row, kind) == from_csv_row(kind, row).exc = ""

\* C8: a malformed row met during a scan is skipped and the scan goes on:
\* every well-formed row after it is returned (here for load_repositories,
\* when no I/O error cuts the scan).
C8_MalformedRowSkipped ==
    (result.call = "scan" /\ ~result.logged) =>
        \A rows \in {stored_rows(ProjectsFile)} :
            \A i \in 1..Len(rows), j \in 1..Len(rows) :
                (/\ i < j
                 /\ ~well_formed(rows[i], "Repository")
                 /\ well_formed(rows[j], "Repository"))
                    => from_csv_row("Repository", rows[j]).val \in Range(result.val)

\* C9: no persistence operation raises an exception to its caller.
C9_NeverRaises == result.exc = ""

\* C10: an I/O error met at any point of a scan, also after rows were
\* decoded, is reported to the caller as an empty result.
C10_ReadErrorGivesEmpty == (result.call = "scan" /\ result.logged) => result.val = <<>>

\* C11: load_repositories, load_users and load_pull_requests on a file that
\* does not exist return an empty list and raise nothing.
C11_MissingFileGivesEmpty ==
    (result.call = "scan" /\ result.file \notin DOMAIN fs) =>
        result.exc = "" /\ result.val = <<>>

\* the last call scanned projects.csv, which does not exist, while users.csv
\* and a pull-request table do and another pull-request table does not
C11_Witness ==
    /\ result.call = "scan"
    /\ result.file = ProjectsFile
    /\ DOMAIN fs = {UsersFile, CollectedFile}
    /\ pull_requests_file(<<"b">>, <<"c">>) \notin DOMAIN fs

\* The tables of a working directory that was prepared by hand: each of the
\* three is missing or holds its header line and nothing else.
header_of(kind) ==
    CASE kind = "Repository" -> Repository_get_csv_header
      [] kind = "PullRequest" -> PullRequest_get_csv_header
      [] kind = "User" -> User_get_csv_header

EmptyTable(filename) == line(header_of(kind_of(filename)))

Tables == {UsersFile, ProjectsFile, CollectedFile}

InitEmptyTables ==
    /\ procs = <<>>
    /\ \E present \in SUBSET Tables :
           /\ fs = [f \in present |-> EmptyTable(f)]
           /\ folders = {dirname(f) : f \in present} \ {<<>>}
    /\ result = NoCall
    /\ codec = Idle

\* one plain repository and one plain pull request, every user
FirstCalls ==
    UserCalls \cup {<<ProjectsFile, PlainRepository>>, <<CollectedFile, PlainPullRequest>>}

NextEmptyTables ==
    \/ ToCSV(FirstCalls, {NoFault})
    \/ UpdateUserCSV({NoFault})
    \/ LoadUsers({NoFault})
    \/ LoadRepositories({NoFault})
    \/ LoadPullRequests({NoFault})

SpecEmptyTables == InitEmptyTables /\ [][NextEmptyTables]_vars

\* every read path, on tables of the three kinds
NextReads ==
    \/ ToCSV(FirstCalls, {NoFault})
    \/ LoadUsers(Faults)
    \/ LoadRepositories(Faults)
    \/ LoadPullRequests(Faults)
    \/ LoadAllPullRequests
    \/ GetRepositorySummary(Faults)

SpecReads == Init /\ [][NextReads]_vars

\* the users table under to_CSV, save_users and update_user_csv without
\* faults, and the scan of it
NextSaveUsers ==
    \/ ToCSV(UserCalls, {NoFault})
    \/ SaveUsers
    \/ UpdateUserCSV({NoFault})
    \/ LoadUsers(Faults)

SpecSaveUsers == Init /\ [][NextSaveUsers]_vars

\* ------------------------------------------------------------------------
\* Two processes inside to_CSV on the users table.  Each step is one access
\* to the file system: os.path.isfile, the scan of _entry_exists, the append.

Processes == {1, 2}

\* the file as a process saw it: no text when it does not exist
snapshot(files, filename) == IF filename \in DOMAIN files THEN <<files[filename]>> ELSE <<>>

\* a process at the start of a call with obj; seen is the file as it was at
\* the last check, stale whether it had changed when the process wrote
Called(op, obj) ==
    [op |-> op, pc |-> "isfile", obj |-> obj, file_exists |-> FALSE, seen |-> <<>>,
     stale |-> FALSE, loaded |-> <<>>, pending |-> <<>>]

\* the users table with one row, of a login no process stores
OtherUser == User(<<"c">>, 1, <<0, 0, 0, 0>>)

OtherTable == line(User_get_csv_header) \o line(to_csv_string(OtherUser))

InitConcurrentToCSV ==
    /\ \E present \in BOOLEAN :
           fs = IF present THEN [f \in {UsersFile} |-> OtherTable] ELSE <<>>
    /\ folders = {}
    /\ result = NoCall
    /\ codec = Idle
    /\ \E objs \in [Processes -> UserInputs] :
           procs = [p \in Processes |-> Called("to_CSV", objs[p])]

\* file_exists = os.path.isfile(filename)
IsFile(p) ==
    /\ procs[p].op = "to_CSV"
    /\ procs[p].pc = "isfile"
    /\ procs' = [procs EXCEPT ![p].file_exists = UsersFile \in DOMAIN fs,
                              ![p].seen = snapshot(fs, UsersFile),
                              ![p].pc = IF UsersFile \in DOMAIN fs THEN "scan" ELSE "append"]
    /\ folders' = ensure_directory(folders, UsersFile)
    /\ UNCHANGED <<fs, result, codec>>

\* if _entry_exists(filename, obj, unique_id): return
EntryExists(p) ==
    /\ procs[p].pc = "scan"
    /\ procs' = [procs EXCEPT ![p].seen = snapshot(fs, UsersFile),
                              ![p].pc = IF is_duplicate(fs, UsersFile, procs[p].obj,
                                                        procs[p].file_exists)
                                        THEN "done" ELSE "append"]
    /\ UNCHANGED <<fs, folders, result, codec>>

\* with open(filename, 'a') ...: the header if file_exists was False, the row
AppendRow(p) ==
    /\ procs[p].pc = "append"
    /\ fs' = written_by(fs, UsersFile, procs[p].obj, procs[p].file_exists)
    /\ procs' = [procs EXCEPT ![p].stale = snapshot(fs, UsersFile) # procs[p].seen,
                              ![p].pc = "done"]
    /\ UNCHANGED <<folders, result, codec>>

NextConcurrentToCSV ==
    \E p \in Processes :
        \/ IsFile(p)
        \/ EntryExists(p)
        \/ AppendRow(p)

SpecConcurrentToCSV == InitConcurrentToCSV /\ [][NextConcurrentToCSV]_vars

\* ------------------------------------------------------------------------
\* Two processes inside update_user_csv on the users table.  Each step is
\* one access to the file system: os.path.isfile, the creation of the file,
\* load_users, the rewrite; the rewrite is taken whole here, its parts are
\* the subject of the crash specification below.

InitConcurrentUpdate ==
    /\ \E present \in BOOLEAN :
           fs = IF present THEN [f \in {UsersFile} |-> OtherTable] ELSE <<>>
    /\ folders = {}
    /\ result = NoCall
    /\ codec = Idle
    /\ \E objs \in [Processes -> UserInputs] :
           procs = [p \in Processes |-> Called("update_user_csv", objs[p])]

\* if not os.path.isfile(filename)
UpdateIsFile(p) ==
    /\ procs[p].op = "update_user_csv"
    /\ procs[p].pc = "isfile"
    /\ procs' = [procs EXCEPT ![p].file_exists = UsersFile \in DOMAIN fs,
                              ![p].seen = snapshot(fs, UsersFile),
                              ![p].pc = IF UsersFile \in DOMAIN fs THEN "load" ELSE "create"]
    /\ folders' = ensure_directory(folders, UsersFile)
    /\ UNCHANGED <<fs, result, codec>>

\* the file did not exist: open(filename, 'w'), the header and the user
CreateTable(p) ==
    /\ procs[p].pc = "create"
    /\ fs' = rewritten(fs, folders, UsersFile, <<procs[p].obj>>).files
    /\ procs' = [procs EXCEPT ![p].stale = snapshot(fs, UsersFile) # procs[p].seen,
                              ![p].pc = "done"]
    /\ UNCHANGED <<folders, result, codec>>

\* existing_users = load_users(filename)
LoadExisting(p) ==
    /\ procs[p].pc = "load"
    /\ load_users(fs, UsersFile, NoFault).exc = ""
    /\ procs' = [procs EXCEPT ![p].loaded = load_users(fs, UsersFile, NoFault).val,
                              ![p].seen = snapshot(fs, UsersFile),
                              ![p].pc = "rewrite"]
    /\ UNCHANGED <<fs, folders, result, codec>>

\* the loop over existing_users and the rewrite of the file
Rewrite(p) ==
    /\ procs[p].pc = "rewrite"
    /\ fs' = rewritten(fs, folders, UsersFile,
                       updated_users(procs[p].loaded, procs[p].obj)).files
    /\ procs' = [procs EXCEPT ![p].stale = snapshot(fs, UsersFile) # procs[p].seen,
                              ![p].pc = "done"]
    /\ UNCHANGED <<folders, result, codec>>

NextConcurrentUpdate ==
    \E p \in Processes :
        \/ UpdateIsFile(p)
        \/ CreateTable(p)
        \/ LoadExisting(p)
        \/ Rewrite(p)

SpecConcurrentUpdate == InitConcurrentUpdate /\ [][NextConcurrentUpdate]_vars

\* ------------------------------------------------------------------------
\* One process that calls update_user_csv time after time and may be killed
\* inside the rewrite.  The rewrite is open(filename, 'w'), which empties the
\* file, the writes, which reach the file some lines at a time or all at
\* once, and the close.

InitCrash ==
    /\ \E present \in BOOLEAN :
           fs = IF present THEN [f \in {UsersFile} |-> OtherTable] ELSE <<>>
    /\ folders = {}
    /\ result = NoCall
    /\ codec = Idle
    /\ \E obj \in UserInputs : procs = [p \in {1} |-> Called("update_user_csv", obj)]

\* with open(filename, 'w', ...) as f
OpenToWrite(p) ==
    /\ procs[p].pc = "rewrite"
    /\ fs' = truncated(fs, UsersFile)
    /\ procs' = [procs EXCEPT ![p].pending = rewrite_lines(updated_users(procs[p].loaded,
                                                                         procs[p].obj)),
                              ![p].pc = "writing"]
    /\ UNCHANGED <<folders, result, codec>>

\* f.write(...): some of the lines written reach the file
Flush(p) ==
    /\ procs[p].pc = "writing"
    /\ \E k \in 1..Len(procs[p].pending) :
           /\ fs' = flushed(fs, UsersFile, procs[p].pending, k)
           /\ procs' = [procs EXCEPT ![p].pending = SubSeq(procs[p].pending, k + 1,
                                                           Len(procs[p].pending))]
    /\ UNCHANGED <<folders, result, codec>>

\* the end of the with block, every line being in the file
Close(p) ==
    /\ procs[p].pc = "writing"
    /\ procs[p].pending = <<>>
    /\ procs' = [procs EXCEPT ![p].pc = "done"]
    /\ UNCHANGED <<fs, folders, result, codec>>

\* the process is killed inside the with block
Crash(p) ==
    /\ procs[p].pc = "writing"
    /\ procs' = [procs EXCEPT ![p].pc = "crashed"]
    /\ UNCHANGED <<fs, folders, result, codec>>

\* the next call of the process, within the bound on stored pull requests
CallAgain(p) ==
    /\ procs[p].pc = "done"
    /\ \E obj \in UserInputs :
           /\ \A users \in {load_users(fs, UsersFile, NoFault).val} :
                  \A i \in 1..Len(users) :
                      users[i].num_pull_requests + obj.num_pull_requests <= MaxStoredPRs
           /\ procs' = [procs EXCEPT ![p] = Called("update_user_csv", obj)]
    /\ UNCHANGED <<fs, folders, result, codec>>

NextCrash ==
    \E p \in DOMAIN procs :
        \/ UpdateIsFile(p)
        \/ CreateTable(p)
        \/ LoadExisting(p)
        \/ OpenToWrite(p)
        \/ Flush(p)
        \/ Close(p)
        \/ Crash(p)
        \/ CallAgain(p)

SpecCrash == InitCrash /\ [][NextCrash]_vars

\* files without the file filename
without(files, filename) == [f \in DOMAIN files \ {filename} |-> files[f]]

\* the table filename is missing or holds its header line only
is_empty_table(filename) == filename \in DOMAIN fs => fs[filename] = EmptyTable(filename)

\* to_CSV, update_user_csv and the scan end alike on absent and on headed
same_on_both(absent, headed, call) ==
    /\ to_CSV(absent, folders, call[1], call[2], NoFault).files
           = to_CSV(headed, folders, call[1], call[2], NoFault).files
    /\ to_CSV(absent, folders, call[1], call[2], NoFault).exc
           = to_CSV(headed, folders, call[1], call[2], NoFault).exc
    /\ call[2].kind = "User" =>
           update_user_csv(absent, folders, call[1], call[2], NoFault).files
               = update_user_csv(headed, folders, call[1], call[2], NoFault).files
    /\ load(absent, call[1], call[2].kind, NoFault)
           = load(headed, call[1], call[2].kind, NoFault)

\* C12: a missing table file is equivalent to an empty table: every to_CSV
\* call, every update_user_csv call and every scan leaves the same table
\* contents and returns the same entities whether the file was missing or
\* held only its header line beforehand (no I/O failure).
C12_MissingIsEmpty ==
    \A call \in TableCalls :
        is_empty_table(call[1]) =>
            same_on_both(without(fs, call[1]), put(fs, call[1], EmptyTable(call[1])), call)

\* users.csv holds its header line only, projects.csv is missing, and the
\* first pull request was appended to its table
C12_Witness ==
    /\ UsersFile \in DOMAIN fs
    /\ fs[UsersFile] = EmptyTable(UsersFile)
    /\ ProjectsFile \notin DOMAIN fs
    /\ result.call = "write"
    /\ result.changed
    /\ Len(stored_rows(CollectedFile)) = 1

\* the integer a field has to decode to: 0 for an absent or blank field
expected_integer(variant) ==
    CASE variant = "digits" -> 42
      [] variant = "padded" -> 7
      [] OTHER -> 0

\* C13: from_csv_row of User, PullRequest and Repository coerces every integer
\* field from its string and yields 0 when the field is absent or blank; no
\* such row makes the decoding fail.
C13_IntegerDefaults ==
    codec.stage = "entity" =>
        /\ codec.decoded.exc = ""
        /\ codec.decoded.val[codec.column] = expected_integer(codec.variant)

\* after is before with one row more, the row of obj, at its end
one_row_appended(before, after, obj) ==
    /\ Len(after) = Len(before) + 1
    /\ SubSeq(after, 1, Len(before)) = before
    /\ <<after[Len(after)].values>> = csv_reader(to_csv_string(obj))

\* r is how a to_CSV call on filename ended: one line more at the end of that
\* file, the header and the stored rows as they were, no other file touched
appended_only(r, filename, obj) ==
    /\ r.exc = ""
    /\ DOMAIN r.files = DOMAIN fs
    /\ \A f \in DOMAIN fs : f # filename => r.files[f] = fs[f]
    /\ r.files[filename] = fs[filename] \o line(to_csv_string(obj))
    /\ first_line(r.files[filename]) = first_line(fs[filename])
    /\ one_row_appended(stored_rows(filename), DictReader(r.files[filename]), obj)

\* C14: to_CSV with an entity whose key is not yet in an existing table
\* appends exactly one row at the end and leaves the header and every stored
\* row unchanged and in order; two distinct users leave the header and two
\* data lines.
C14_AppendOnly ==
    \A call \in TableCalls :
        (call[1] \in DOMAIN fs /\ ~key_stored(call[1], call[2])) =>
            appended_only(to_CSV(fs, folders, call[1], call[2], NoFault), call[1], call[2])

\* users.csv holds three lines, the header and the rows of "a" and of "b" in
\* the order of their to_CSV calls, and the last call wrote
C14_Witness ==
    /\ result.call = "write"
    /\ result.changed
    /\ UsersFile \in DOMAIN fs
    /\ fs[UsersFile] = line(User_get_csv_header)
                           \o line(User_to_csv_string(User(<<"a">>, 2, <<1, 10, 0, 3>>)))
                           \o line(User_to_csv_string(User(<<"b">>, 2, <<0, 0, 0, 0>>)))

\* paths in a sub-directory: the table of the collected repository, and a
\* users table and a projects table kept under "subdir"
NestedCalls ==
    PullRequestCalls
        \cup {<<<<"subdir", "/">> \o call[1], call[2]>> : call \in UserCalls \cup RepositoryCalls}

\* r is how a writing call on filename ended: the directory and the file exist
directory_and_file(r, filename) ==
    /\ r.exc = ""
    /\ dirname(filename) \in r.dirs
    /\ filename \in DOMAIN r.files

\* C15: to_CSV, and update_user_csv, with a path whose parent directory does
\* not exist creates that directory and then the file: both exist after the
\* call (no I/O failure); no table file is ever without its directory.
C15_DirectoryCreated ==
    /\ \A f \in DOMAIN fs : dirname(f) # <<>> => dirname(f) \in folders
    /\ \A call \in NestedCalls :
           dirname(call[1]) \notin folders =>
               /\ directory_and_file(to_CSV(fs, folders, call[1], call[2], NoFault), call[1])
               /\ call[2].kind = "User" =>
                      directory_and_file(
                          update_user_csv(fs, folders, call[1], call[2], NoFault), call[1])

\* save_pull_requests has just created "projects" and the table in it, while
\* "subdir" does not exist
C15_Witness ==
    /\ result.call = "write"
    /\ result.changed
    /\ folders = {<<"projects">>}
    /\ CollectedFile \in DOMAIN fs
    /\ Len(stored_rows(CollectedFile)) = 1

\* the rows of a table whose column holds exactly text
rows_with(rows, column, text) == {i \in 1..Len(rows) : get(rows[i], column, <<>>) = text}

\* the table of the summary scenario
ScenarioTable ==
    line(PullRequest_get_csv_header)
        \o line(PullRequest_to_csv_string(Scenario[1]))
        \o line(PullRequest_to_csv_string(Scenario[2]))
        \o line(PullRequest_to_csv_string(Scenario[3]))

\* the counts of summary are those of the rows of a table
counts_of(summary, rows) ==
    /\ summary.open_prs = Cardinality(rows_with(rows, "state", <<"open">>))
    /\ summary.closed_prs = Cardinality(rows_with(rows, "state", <<"closed">>))
    /\ summary.open_prs + summary.closed_prs <= Len(rows)
    /\ summary.num_users
           = Cardinality({get(rows[i], "user", <<>>) : i \in 1..Len(rows)} \ {<<>>})

\* C16: get_repository_summary over any stored pull-request table returns
\* open_prs = the number of rows whose state is exactly "open", closed_prs =
\* the number of rows whose state is exactly "closed" (any other state counts
\* for neither, so open_prs + closed_prs <= rows) and num_users = the number
\* of distinct non-empty user values; on the three pull requests of the
\* summary scenario it returns 2, 1, 1 and the date 2024-01-10 (no I/O
\* failure).
C16_SummaryCounts ==
    (result.call = "summary" /\ ~result.logged) =>
        /\ result.exc = ""
        /\ counts_of(result.val, stored_rows(result.file))
        /\ (result.file \in DOMAIN fs /\ fs[result.file] = ScenarioTable) =>
               result.val = [open_prs |-> 2, closed_prs |-> 1, num_users |-> 1,
                             oldest_pr_date |-> spelled(Date_2024_01_10)]

\* the summary of the scenario table was returned
C16_Witness ==
    /\ result.call = "summary"
    /\ ~result.logged
    /\ result.file \in DOMAIN fs
    /\ fs[result.file] = ScenarioTable
    /\ result.val.open_prs = 2
    /\ result.val.closed_prs = 1
    /\ result.val.num_users = 1

\* the first ten characters of a text
first_ten(text) == [i \in 1..Min(10, Len(spelled(text))) |-> spelled(text)[i]]

\* the dates of the rows that have a created_at
dates_of(rows) ==
    {first_ten(get(rows[i], "created_at", <<>>)) :
        i \in {j \in 1..Len(rows) : get(rows[j], "created_at", <<>>) # <<>>}}

\* date is the smallest of dates, "N/A" standing for no date
earliest_of(date, dates) ==
    IF dates = {} THEN date = NotAvailable
    ELSE date \in dates /\ \A d \in dates : ~str_less(d, date)

\* C17: the earliest date returned by get_repository_summary is the
\* lexicographically smallest 10-character prefix of created_at among the
\* pull requests whose created_at is not empty, and it is absent (the
\* placeholder "N/A") when no pull request has a created_at, as with an empty
\* or missing table (no I/O failure).
C17_EarliestDate ==
    (result.call = "summary" /\ ~result.logged) =>
        /\ result.exc = ""
        /\ earliest_of(result.val.oldest_pr_date, dates_of(stored_rows(result.file)))

\* the summary of a table of three rows was returned: a first row created on
\* 2024-02-01, a row without created_at, and a last row created on
\* 2024-01-10 at 09:30, whose date is the one returned
C17_Witness ==
    /\ result.call = "summary"
    /\ ~result.logged
    /\ Len(stored_rows(result.file)) = 3
    /\ get(stored_rows(result.file)[1], "created_at", <<>>) = Date_2024_02_01
    /\ get(stored_rows(result.file)[2], "created_at", <<>>) = <<>>
    /\ get(stored_rows(result.file)[3], "created_at", <<>>) = Date_2024_01_10 \o TimeOfDay
    /\ result.val.oldest_pr_date = spelled(Date_2024_01_10)

\* a text that holds no digit, or no text at all
non_numeric(text) == text = None \/ SelectSeq(text, IsDigit) = <<>>

\* C18: GitHubScraper._parse_number returns 0 and raises nothing for the
\* empty text, for None and for every text that is not numeric.
C18_NonNumericGivesZero ==
    (codec.stage = "number" /\ non_numeric(codec.text)) => codec.parsed = Ok(0)

\* the logins of the rows of users.csv in the working directory files
logins_of(files) ==
    IF UsersFile \in DOMAIN files
    THEN {get(row, "login", <<>>) : row \in Range(DictReader(files[UsersFile]))}
    ELSE {}

\* C19: once a login is stored in the users table it is in every later
\* state: no save_users or update_user_csv call removes a user row (calls
\* that meet no I/O failure).
C19_UsersNeverRemoved == [][logins_of(fs) \subseteq logins_of(fs')]_vars

\* users.csv holds "b" and, after it, "a", whose row was merged since: the 5
\* pull requests of two updates
C19_Witness ==
    /\ result.call = "write"
    /\ result.changed
    /\ Len(stored_users) = 2
    /\ stored_users[1].login = <<"b">>
    /\ stored_users[2].login = <<"a">>
    /\ stored_users[2].num_pull_requests = 5

\* the rows of users.csv after a call that ended in r are those stored before
same_rows_after(r) == DictReader(r.files[UsersFile]) = stored_rows(UsersFile)

\* C20: an I/O failure during a table operation has an empty effect on the
\* table: when the read of the existing file fails inside the duplicate check
\* of to_CSV or inside the load of update_user_csv, the stored rows are after
\* the call what they were before it (no duplicate is appended and no user
\* row is lost in the rewrite).
C20_ReadFailureNoEffect ==
    \A call \in UserCalls, fault \in Faults :
        (ReadFails(fault) /\ UsersFile \in DOMAIN fs) =>
            /\ same_rows_after(to_CSV(fs, folders, call[1], call[2], fault))
            /\ same_rows_after(update_user_csv(fs, folders, call[1], call[2], fault))

\* the rows of users.csv after update_user_csv(user) without I/O failure
rows_after_update(user) ==
    DictReader(update_user_csv(fs, folders, UsersFile, user, NoFault).files[UsersFile])

\* the rows of a table whose login is login
rows_of_login(rows, login) == {i \in 1..Len(rows) : get(rows[i], "login", <<>>) = login}

\* after differs from before in the row i at most, which keeps its login
only_row_changed(before, after, i) ==
    /\ Len(after) = Len(before)
    /\ \A j \in 1..Len(before) : j # i => after[j] = before[j]
    /\ get(after[i], "login", <<>>) = get(before[i], "login", <<>>)

\* after is before followed by the row of user
row_added_last(before, after, user) ==
    /\ Len(after) = Len(before) + 1
    /\ SubSeq(after, 1, Len(before)) = before
    /\ <<after[Len(after)].values>> = csv_reader(User_to_csv_string(user))

\* what update_user_csv(user) may make of the rows before
at_most_one_row(before, after, user, matching) ==
    IF matching = {}
    THEN row_added_last(before, after, user)
    ELSE only_row_changed(before, after, CHOOSE i \in matching : \A j \in matching : i <= j)

\* C21: update_user_csv on an existing table changes at most one row: when
\* the login is stored, only the first row holding it is changed and the
\* number and the order of the rows are kept; when it is not, the incoming
\* user becomes the last row and every stored row is written back with the
\* same values in the same order (no I/O failure).
C21_AtMostOneRow ==
    \A user \in UserInputs :
        UsersFile \in DOMAIN fs =>
            at_most_one_row(stored_rows(UsersFile), rows_after_update(user), user,
                            rows_of_login(stored_rows(UsersFile), user.login))

\* users.csv holds two rows of "a" and the row of "b" after them, and the
\* first row of "a" alone was merged: it holds 5 pull requests, the second 2
C21_Witness ==
    /\ result.call = "write"
    /\ result.changed
    /\ Len(stored_users) = 3
    /\ stored_users[1].login = <<"a">> /\ stored_users[1].num_pull_requests = 5
    /\ stored_users[2].login = <<"a">> /\ stored_users[2].num_pull_requests = 2
    /\ stored_users[3].login = <<"b">>

\* the users of users.csv in the working directory files
users_of_table(files) == load_users(files, UsersFile, NoFault).val

\* no counter of old is larger than in new
not_lower(old, new) ==
    /\ new.login = old.login
    /\ new.num_pull_requests >= old.num_pull_requests
    /\ new.num_repos >= old.num_repos
    /\ new.num_followers >= old.num_followers
    /\ new.num_following >= old.num_following
    /\ new.num_contributions >= old.num_contributions

\* every user of before is in after, at its place, with no counter lowered
counters_kept(before, after) ==
    /\ Len(after) >= Len(before)
    /\ \A i \in 1..Len(before) : not_lower(before[i], after[i])

\* C22: across any sequence of update_user_csv calls the num_pull_requests,
\* num_repos, num_followers, num_following and num_contributions of a stored
\* user never decrease from one state to the next (incoming values are not
\* negative); a scrape that failed and reports zeros lowers nothing (no I/O
\* failure).
C22_CountersNeverDecrease == [][counters_kept(users_of_table(fs), users_of_table(fs'))]_vars

\* the row of "a" was merged with counters 2, 7, 3, 0 after it was stored
\* with 1, 10, 0, 3: the 10 followers and the 3 contributions are kept
C22_Witness ==
    /\ result.call = "write"
    /\ result.changed
    /\ \E u \in Range(stored_users) :
           /\ u.login = <<"a">>
           /\ u.num_repos = 2
           /\ u.num_followers = 10
           /\ u.num_following = 3
           /\ u.num_contributions = 3

\* the pull-request tables of the working directory
pull_request_tables == {f \in DOMAIN fs : kind_of(f) = "PullRequest"}

\* the rows of the table filename whose user is login
authored(filename, login) == rows_with(stored_rows(filename), "user", login)

\* the pairs <<table, row>> of the rows login authored
rows_authored(login) ==
    UNION {{<<f, i>> : i \in authored(f, login)} : f \in pull_request_tables}

\* C23: after any sequence of collection runs (save_pull_requests, then
\* save_users with the pull-request counts of the run), the
\* num_pull_requests of every stored user is the number of rows that login
\* authored in all the pull-request tables, also when a repository is
\* collected more than once.
C23_CountsMatchRows ==
    \A u \in Range(stored_users) : u.num_pull_requests = Cardinality(rows_authored(u.login))

\* the table of the repository id after save_pull_requests(id, <<pr>>) holds
\* the key of pr, and no other file has changed
stored_in_own_table(r, filename, pr) ==
    /\ r.exc = ""
    /\ \E i \in 1..Len(DictReader(r.files[filename])) :
           row_key(DictReader(r.files[filename])[i], "PullRequest") = entity_key(pr)
    /\ \A f \in DOMAIN fs : f # filename => r.files[f] = fs[f]

\* owners and names of one or two letters, none of them "-"
DashFreeNames == UNION {[1..n -> {"b", "c"}] : n \in 1..2}

\* C24: pull-request numbers are keys within one repository: two distinct
\* (owner, name) pairs without "-" in owner and name have distinct table
\* files, so that the pull request n of one repository is stored whether or
\* not the other repository's table holds a pull request n.
C24_KeysScoped ==
    /\ \A owner \in DashFreeNames, name \in DashFreeNames :
           \A other_owner \in DashFreeNames, other_name \in DashFreeNames :
               <<owner, name>> # <<other_owner, other_name>> =>
                   pull_requests_file(owner, name) # pull_requests_file(other_owner, other_name)
    /\ \A id \in ScopedIds :
            \A pr \in PullRequestInputs :
                stored_in_own_table(
                    save_pull_requests(fs, folders, id[1], id[2], <<pr>>),
                    pull_requests_file(id[1], id[2]), pr)

\* the tables of "b"/"c" and of "c"/"b" both hold a pull request 1, and the
\* last call stored one
C24_Witness ==
    /\ result.call = "write"
    /\ result.changed
    /\ \A id \in ScopedIds :
           \E row \in Range(stored_rows(pull_requests_file(id[1], id[2]))) :
               row_key(row, "PullRequest") = <<str(1)>>

\* the owner/name of a table file: its stem split at the first "-"
TagOf(filename) ==
    CASE filename = CollectedFile -> <<"a", "/", "b", "-", "c">>
      [] filename = pull_requests_file(<<"b">>, <<"c">>) -> <<"b", "/", "c">>

\* the entries of all_prs that carry tag, in their order
RECURSIVE entries_of(_, _)
entries_of(all_prs, tag) ==
    IF all_prs = <<>> THEN <<>>
    ELSE (IF Head(all_prs)[1] = tag THEN <<Head(all_prs)[2]>> ELSE <<>>)
             \o entries_of(Tail(all_prs), tag)

\* the rows of every pull-request table, as pairs <<table, row>>
all_stored_rows ==
    UNION {{<<f, i>> : i \in 1..Len(stored_rows(f))} : f \in pull_request_tables}

\* C25: load_all_pull_requests returns every row stored by
\* save_pull_requests exactly once, paired with the owner/name that
\* splitting the file stem at its first "-" gives; for an owner and a name
\* without "-" (here "b"/"c") that is the owner/name the pull request was
\* saved under.
C25_AllRowsOnce ==
    result.call = "scan_all" =>
        /\ result.exc = ""
        /\ Len(result.val) = Cardinality(all_stored_rows)
        /\ \A f \in pull_request_tables :
               entries_of(result.val, TagOf(f))
                   = load(fs, f, "PullRequest", NoFault).val

\* both tables hold two rows and the four were returned, those of "b"/"c"
\* first
C25_Witness ==
    /\ result.call = "scan_all"
    /\ Len(result.val) = 4
    /\ result.val[1][1] = <<"b", "/", "c">>
    /\ result.val[4][1] = <<"a", "/", "b", "-", "c">>
    /\ \A f \in pull_request_tables : Len(stored_rows(f)) = 2

\* the calls that read
ReadCalls == {"scan", "scan_all", "summary"}

\* C26: load_repositories, load_pull_requests, load_all_pull_requests,
\* load_users and get_repository_summary leave every table file, and the set
\* of files and directories that exist, as they were.
C26_ReadsPersistNothing ==
    [][result'.call \in ReadCalls => fs' = fs /\ folders' = folders]_vars

\* the three kinds of table exist and all pull requests were read
C26_Witness ==
    /\ result.call = "scan_all"
    /\ Len(result.val) >= 1
    /\ {UsersFile, ProjectsFile, CollectedFile} \subseteq DOMAIN fs

\* the data rows of the users table whose login is login
rows_keyed(login) ==
    {i \in 1..Len(stored_rows(UsersFile)) : get(stored_rows(UsersFile)[i], "login", <<>>) = login}

\* the header lines of the users table after the first: the reader gives
\* each as a row whose login is the word "login"
repeated_headers == rows_keyed(get(DictReader(line(User_get_csv_header)
                                                  \o line(User_get_csv_header))[1],
                                       "login", <<>>))

all_done == \A p \in DOMAIN procs : procs[p].pc = "done"

\* C27: two processes in to_CSV with the same key on the same table can leave
\* two rows with that key, or two header lines when the file was absent; it
\* takes an interleaving in which a process appends to a file that changed
\* after the process checked it.  When no process wrote on a changed file,
\* every key is stored once and the header once.
C27_DuplicatesByInterleaving ==
    (UsersFile \in DOMAIN fs /\ \A p \in Processes : ~procs[p].stale) =>
        /\ repeated_headers = {}
        /\ \A obj \in UserInputs : Cardinality(rows_keyed(obj.login)) <= 1

\* the file was absent, both processes stored login "a": two header lines
\* and two rows of "a"
C27_Witness ==
    /\ all_done
    /\ \A p \in Processes : procs[p].op = "to_CSV" /\ procs[p].obj.login = <<"a">>
    /\ Cardinality(rows_keyed(<<"a">>)) = 2
    /\ Cardinality(repeated_headers) = 1

\* the num_pull_requests stored for login in users, 0 when it has no row
stored_count(users, login) ==
    IF \A i \in 1..Len(users) : users[i].login # login THEN 0
    ELSE users[CHOOSE i \in 1..Len(users) :
                   users[i].login = login /\ \A j \in 1..(i - 1) : users[j].login # login]
             .num_pull_requests

\* the pull requests the two processes bring for login
brought(login) ==
    (IF procs[1].obj.login = login THEN procs[1].obj.num_pull_requests ELSE 0)
        + (IF procs[2].obj.login = login THEN procs[2].obj.num_pull_requests ELSE 0)

nothing_lost(users) ==
    /\ \A obj \in UserInputs : stored_count(users, obj.login) = brought(obj.login)
    /\ Len(users) = Cardinality({users[i].login : i \in 1..Len(users)})

\* C28: two processes in update_user_csv each read the old table and then
\* rewrite it, so that one update can be lost; it takes an interleaving in
\* which a process rewrites a table that changed after the process read it.
\* When both are done and neither wrote on a changed table, every login
\* holds the sum of the pull requests brought for it.
C28_LostUpdateByInterleaving ==
    (all_done /\ \A p \in Processes :
                     procs[p].op = "update_user_csv" /\ ~procs[p].stale) =>
        \A users \in {load_users(fs, UsersFile, NoFault).val} : nothing_lost(users)

\* both processes updated login "a" on the existing table, with 2 and 3 pull
\* requests, and the table holds less than 5 for "a"
C28_Witness ==
    /\ all_done
    /\ \A p \in Processes : procs[p].op = "update_user_csv" /\ procs[p].obj.login = <<"a">>
    /\ brought(<<"a">>) = 5
    /\ \A p \in Processes : procs[p].loaded # <<>>
    /\ stored_count(load_users(fs, UsersFile, NoFault).val, <<"a">>) < 5

\* the users table has its header and a row for every user that was loaded
table_complete(loaded) ==
    /\ first_line(fs[UsersFile]) = User_get_csv_header
    /\ \A i \in 1..Len(loaded) : loaded[i].login \in logins_of(fs)

\* C29: a process killed inside the rewrite of update_user_csv, after the
\* file was opened to be written and before the last row was written, can
\* leave the users table without its header or without rows it held.
\* Outside that window the table has its header and every row that was read.
C29_TruncatedOnlyInRewrite ==
    \A p \in DOMAIN procs :
        (procs[p].op = "update_user_csv" /\ UsersFile \in DOMAIN fs
             /\ procs[p].pc \notin {"writing", "crashed"}) =>
            table_complete(procs[p].loaded)

\* the process was killed and the table, which held rows, is empty
C29_Witness ==
    /\ DOMAIN procs = {1}
    /\ procs[1].pc = "crashed"
    /\ procs[1].loaded # <<>>
    /\ fs[UsersFile] = <<>>

\* key is not in the record
absent(fields, key) == key \notin DOMAIN fields

\* the record that key should hold is absent, null or without any key
no_record(fields, key) ==
    \/ absent(fields, key)
    \/ fields[key].type = "null"
    \/ DOMAIN fields[key].fields = {}

\* key is not to be had from the detail record
no_detail(details, key) ==
    \/ details.type = "null"
    \/ absent(details.fields, key)

pull_request_defaults(issue, details, pr) ==
    /\ \A key \in {"title", "body", "state", "created_at"} :
           absent(issue, key) => pr[key] = <<>>
    /\ absent(issue, "number") => pr.number = 0
    /\ absent(issue, "closed_at") => pr.closed_at = None
    /\ no_record(issue, "user") => pr.user = <<>>
    /\ \A key \in {"commits", "additions", "deletions", "changed_files"} :
           no_detail(details, key) => pr[key] = 0
    /\ (absent(issue, "author_association") /\ no_detail(details, "author_association"))
           => pr.author_association = <<>>

license_defaults(data, license) ==
    IF data.type = "null" THEN license = NoLicense
    ELSE \A key \in {"key", "name", "url"} : absent(data.fields, key) => license[key] = <<>>

repository_defaults(data, repo) ==
    /\ \A key \in {"name", "description", "homepage"} : absent(data, key) => repo[key] = <<>>
    /\ absent(data, "forks_count") => repo.forks = 0
    /\ absent(data, "watchers_count") => repo.watchers = 0
    /\ absent(data, "stargazers_count") => repo.stars = 0
    /\ no_record(data, "owner") => repo.owner = <<>>
    /\ no_record(data, "license") => repo.license = NoLicense
    /\ ~absent(data, "license") => license_defaults(data["license"], repo.license)

user_defaults(data, user) ==
    /\ absent(data, "login") => user.login = <<>>
    /\ user.num_pull_requests = 0
    /\ user.num_repos = 0
    /\ user.num_followers = 0
    /\ user.num_following = 0
    /\ user.num_contributions = 0

defaults_hold(kind, data, details, entity) ==
    CASE kind = "PullRequest" -> pull_request_defaults(data.fields, details, entity)
      [] kind = "Repository" -> repository_defaults(data.fields, entity)
      [] kind = "License" -> license_defaults(data, entity)
      [] kind = "User" -> user_defaults(data.fields, entity)

\* the 'pull_request' key, when present, holds a record
pull_request_is_record(kind, data) ==
    (kind = "PullRequest" /\ ~absent(data.fields, "pull_request"))
        => data.fields["pull_request"].type = "object"

\* C30: from_json of PullRequest, Repository, User and License does not fail
\* on a missing key: with any subset of the expected keys absent, and the
\* detail record, the license, the user or the owner absent or None, it
\* returns an entity whose fields hold the defaults ('' for texts, 0 for
\* numbers, None for closed_at, the empty license).
C30_MissingKeysGiveDefaults ==
    (codec.stage = "from_json" /\ pull_request_is_record(codec.kind, codec.data)) =>
        /\ codec.decoded.exc = ""
        /\ defaults_hold(codec.kind, codec.data, codec.details, codec.decoded.val)

\* a pull request made of a record without any key and no detail record
C30_Witness ==
    /\ codec.stage = "from_json"
    /\ codec.kind = "PullRequest"
    /\ codec.data = EmptyObject
    /\ codec.details = Null
    /\ codec.decoded.exc = ""
    /\ codec.decoded.val.closed_at = None
    /\ codec.decoded.val.title = <<>>

====
